---- MODULE Spec2Model ----
(***************************************************************************)
(* The scenario analysis pipeline of sim_frontend:                         *)
(*   ScenarioAnalyzer, RecommendationGenerator, QueryCache,                *)
(*   ParallelAgentCaller, MessageFormatter and ScenarioService.            *)
(*                                                                         *)
(* Text is modelled as a sequence of words (tokens).  A keyword test       *)
(* "kw in query" is a test for the word kw; lower(), upper() and strip()   *)
(* act word by word.  The vocabulary holds no word that contains another   *)
(* keyword of the analyzer as a proper substring.                          *)
(*                                                                         *)
(* A Python dict is a TLA+ function whose DOMAIN is the set of keys that   *)
(* are present; dict.get(k, default) is DictGet.  A dict whose iteration   *)
(* order matters (the result map of call_agents) is a sequence of          *)
(* [sub_id, result] pairs in insertion order.                              *)
(*                                                                         *)
(* Actions are the pieces of code that run between two suspension points   *)
(* of the asyncio event loop (await websocket.send_json, await client.get, *)
(* await asyncio.sleep, await asyncio.gather).                             *)
(***************************************************************************)
EXTENDS Integers, Sequences, FiniteSets, TLC

\* ------------------------------------------------------------------ bounds
\* Largest value of the clock, in minutes.
MaxTime == 6
\* Number of operations (process_scenario / retry_agent_call / call_agents)
\* one behaviour invokes.
MaxOps == 2
\* Number of times a caller of its own invokes call_agents in one behaviour.
MaxCalls == 1
\* Largest number of sub-queries such a caller hands to call_agents.
MaxQueries == 2

\* --------------------------------------------------------- configuration
\* int(os.getenv("AGENT_MAX_RETRIES", "3"))
max_retries == 3
\* float(os.getenv("AGENT_RETRY_DELAY", "1"))
retry_delay == 1
\* QueryCache(ttl_seconds=300) of both caches, in minutes.
ttl == 5
\* QueryCache.max_size
max_size == 100

\* Python's None.
None == "<None>"

\* The session id of the connection the service serves.
SessionId == "session-1"

\* ------------------------------------------------------------------- text
\* str.lower() on one word.
LowerWord(w) ==
    CASE w = "YIELD" -> "yield"
      [] w = "DC-101" -> "dc-101"
      [] w = "Q1" -> "q1"
      [] w = "<SCRIPT" -> "<script"
      [] OTHER -> w

\* str.upper() on one word.
UpperWord(w) ==
    CASE w = "yield" -> "YIELD"
      [] w = "dc-101" -> "DC-101"
      [] w = "issue" -> "ISSUE"
      [] w = "flow" -> "FLOW"
      [] w = "tank" -> "TANK"
      [] w = "q1" -> "Q1"
      [] w = "YIELD" -> "YIELD"
      [] w = "DC-101" -> "DC-101"
      [] w = "Q1" -> "Q1"
      [] OTHER -> w

Lower(q) == [i \in 1..Len(q) |-> LowerWord(q[i])]

IsSpace(w) == w = " "

RECURSIVE LStrip(_)
LStrip(q) == IF q # <<>> /\ IsSpace(Head(q)) THEN LStrip(Tail(q)) ELSE q

RECURSIVE RStrip(_)
RStrip(q) ==
    IF q # <<>> /\ IsSpace(q[Len(q)]) THEN RStrip(SubSeq(q, 1, Len(q) - 1)) ELSE q

\* str.strip()
Strip(q) == RStrip(LStrip(q))

\* "kw in query"
Contains(q, kw) == \E i \in 1..Len(q) : q[i] = kw

ContainsAny(q, kws) == \E kw \in kws : Contains(q, kw)

\* [x for x in xs if P(x)], keeping the order of xs
RECURSIVE SelectWords(_, _)
SelectWords(xs, S) ==
    IF xs = <<>> THEN <<>>
    ELSE IF Head(xs) \in S THEN <<Head(xs)>> \o SelectWords(Tail(xs), S)
         ELSE SelectWords(Tail(xs), S)

\* The queries a caller sends: two of them equal up to case and surrounding
\* whitespace, one of another domain with a parameter keyword, one of a
\* domain without a template table of its own.
Queries ==
    { <<"yield", "dc-101">>,
      <<" ", "YIELD", "DC-101", " ">>,
      <<"issue", "flow">>,
      <<"tank">> }

\* --------------------------------------------------------------- analyzer
process_keywords ==
    << "distillation", "tank", "reactor", "pump", "column", "pressure",
       "temperature", "flow", "level", "efficiency", "production", "cooling",
       "heating", "process" >>

\* r'\b[A-Z]{2,}-\d{3,}\b'
AssetWords == {"DC-101"}

ExtractProcessKeywords(query) ==
    SelectWords(process_keywords, {query[i] : i \in 1..Len(query)})

ExtractAssetIdentifiers(query) ==
    SelectWords([i \in 1..Len(query) |-> UpperWord(query[i])], AssetWords)

ExtractKeywords(query) ==
    ExtractProcessKeywords(query) \o ExtractAssetIdentifiers(query)

IdentifyDomain(query) ==
    IF ContainsAny(query, {"compare", "comparison", "across", "between"})
    THEN "performance_comparison"
    ELSE IF ContainsAny(query, {"performance", "efficiency", "output", "yield"})
    THEN "process_performance"
    ELSE IF ContainsAny(query, {"operations", "parameters", "critical", "operating"})
    THEN "operations"
    ELSE IF ContainsAny(query, {"investigate", "root cause", "problem", "issue",
                                "fluctuation"})
    THEN "troubleshooting"
    ELSE IF ContainsAny(query, {"maintenance", "repair", "failure", "breakdown"})
    THEN "maintenance"
    ELSE IF Contains(query, "tank") THEN "operations"
    ELSE IF ContainsAny(query, {"analyze", "analysis"}) THEN "process_performance"
    ELSE "general"

ExtractTimePeriod(query) ==
    IF Contains(query, "today") THEN "today"
    ELSE IF Contains(query, "yesterday") THEN "yesterday"
    ELSE IF Contains(query, "two weeks") THEN "last_two_weeks"
    ELSE IF Contains(query, "month") THEN "last_month"
    ELSE IF Contains(query, "week") THEN "this_week"
    ELSE "current"

\* ScenarioAnalyzer.analyze
Analyze(query) ==
    LET query_lower == Lower(query)
    IN [ keywords |-> ExtractKeywords(query_lower),
         domain |-> IdentifyDomain(query_lower),
         time_period |-> ExtractTimePeriod(query_lower) ]

\* -------------------------------------------------------------- generator
\* dict.get(k, default)
DictGet(d, k, default) == IF k \in DOMAIN d THEN d[k] ELSE default

\* f"rec-{n}"
SubId(n) == <<"rec-1", "rec-2", "rec-3", "rec-4", "rec-5", "rec-6">>[n]

SubIds == {SubId(n) : n \in 1..5}

\* A template: its text and the placeholders {parameter}, {asset},
\* {time_period} that occur in it.
Template(text, p, a, t) == [text |-> text, p |-> p, a |-> a, t |-> t]

\* RecommendationGenerator._init_templates and _get_templates_for_domain:
\* the buckets of a domain in dict order.
TemplatesForDomain(domain) ==
    CASE domain = "process_performance" ->
           << [agent_type |-> "sqlagent",
               templates |-> << Template("pp-sql-1", FALSE, TRUE, TRUE),
                                Template("pp-sql-2", FALSE, TRUE, FALSE),
                                Template("pp-sql-3", FALSE, FALSE, TRUE) >>],
              [agent_type |-> "toolagent",
               templates |-> << Template("pp-tool-1", FALSE, TRUE, FALSE),
                                Template("pp-tool-2", FALSE, FALSE, FALSE) >>] >>
      [] domain = "troubleshooting" ->
           << [agent_type |-> "sqlagent",
               templates |-> << Template("ts-sql-1", TRUE, FALSE, FALSE),
                                Template("ts-sql-2", FALSE, TRUE, TRUE),
                                Template("ts-sql-3", FALSE, FALSE, FALSE) >>],
              [agent_type |-> "toolagent",
               templates |-> << Template("ts-tool-1", TRUE, FALSE, FALSE),
                                Template("ts-tool-2", FALSE, FALSE, FALSE) >>] >>
      [] domain = "performance_comparison" ->
           << [agent_type |-> "sqlagent",
               templates |-> << Template("pc-sql-1", TRUE, FALSE, FALSE),
                                Template("pc-sql-2", FALSE, FALSE, TRUE),
                                Template("pc-sql-3", FALSE, FALSE, FALSE) >>],
              [agent_type |-> "toolagent",
               templates |-> << Template("pc-tool-1", FALSE, FALSE, FALSE),
                                Template("pc-tool-2", FALSE, FALSE, FALSE) >>] >>
      [] OTHER ->
           << [agent_type |-> "sqlagent",
               templates |-> << Template("gen-sql-1", FALSE, FALSE, FALSE),
                                Template("gen-sql-2", FALSE, FALSE, FALSE),
                                Template("gen-sql-3", FALSE, FALSE, FALSE) >>],
              [agent_type |-> "toolagent",
               templates |-> << Template("gen-tool-1", FALSE, FALSE, FALSE),
                                Template("gen-tool-2", FALSE, FALSE, FALSE) >>] >>

\* next((k for k in keywords if k in S), default)
FirstIn(keywords, S, default) ==
    LET hits == SelectWords(keywords, S)
    IN IF hits = <<>> THEN default ELSE Head(hits)

\* time_period.replace("_", " ")
TimeDesc(time_period) ==
    CASE time_period = "last_two_weeks" -> "last two weeks"
      [] time_period = "last_month" -> "last month"
      [] time_period = "this_week" -> "this week"
      [] OTHER -> time_period

\* RecommendationGenerator._fill_template: the text of the template with the
\* placeholders it holds replaced.
FillTemplate(template, keywords, time_period) ==
    LET parameter == FirstIn(keywords, {"temperature", "pressure", "flow", "level"},
                             "key parameters")
        asset == FirstIn(keywords, AssetWords, "the specified asset")
    IN <<template.text>>
         \o (IF template.p THEN <<parameter>> ELSE <<>>)
         \o (IF template.a THEN <<asset>> ELSE <<>>)
         \o (IF template.t THEN <<TimeDesc(time_period)>> ELSE <<>>)

AgentQuery(agent_type, query, sub_id) ==
    [agent_type |-> agent_type, query |-> query, sub_id |-> sub_id]

\* The templates of a bucket numbered from rec-1, whatever came before.
NumberFromOne(agent_type, templates, keywords, time_period, start_count) ==
    [i \in 1..Len(templates) |->
        [agent_type |-> agent_type,
         query |-> FillTemplate(templates[i], keywords, time_period),
         sub_id |-> SubId(i)]]

\* RecommendationGenerator._process_agent_templates
ProcessAgentTemplates(agent_type, templates, keywords, time_period, start_count) ==
    LET n == IF 5 - start_count < Len(templates)
             THEN (IF 5 - start_count < 0 THEN 0 ELSE 5 - start_count)
             ELSE Len(templates)
    IN [i \in 1..n |->
          AgentQuery(agent_type,
                     FillTemplate(templates[i], keywords, time_period),
                     SubId(start_count + i))]

\* RecommendationGenerator._create_recommendations_from_templates
RECURSIVE CreateRecommendationsFromTemplates(_, _, _, _)
CreateRecommendationsFromTemplates(buckets, keywords, time_period, recommendations) ==
    IF buckets = <<>> THEN recommendations
    ELSE LET new_recs == ProcessAgentTemplates(Head(buckets).agent_type,
                                               Head(buckets).templates, keywords,
                                               time_period, Len(recommendations))
             recs == recommendations \o new_recs
         IN IF Len(recs) >= 5 THEN recs
            ELSE CreateRecommendationsFromTemplates(Tail(buckets), keywords,
                                                    time_period, recs)

\* RecommendationGenerator._create_default_recommendation
CreateDefaultRecommendation(index) ==
    AgentQuery(IF index <= 3 THEN "sqlagent" ELSE "toolagent",
               <<"additional-analysis", SubId(index)>>, SubId(index))

\* RecommendationGenerator._ensure_five_recommendations
RECURSIVE EnsureFiveRecommendations(_)
EnsureFiveRecommendations(recommendations) ==
    IF Len(recommendations) < 5
    THEN EnsureFiveRecommendations(
             Append(recommendations,
                    CreateDefaultRecommendation(Len(recommendations) + 1)))
    ELSE SubSeq(recommendations, 1, 5)

\* RecommendationGenerator.generate
Generate(query, analysis) ==
    LET domain == DictGet(analysis, "domain", "general")
        keywords == DictGet(analysis, "keywords", <<>>)
        time_period == DictGet(analysis, "time_period", "current")
    IN EnsureFiveRecommendations(
           CreateRecommendationsFromTemplates(TemplatesForDomain(domain), keywords,
                                              time_period, <<>>))

\* ------------------------------------------------------------- QueryCache
\* The words of a domain name as they stand in an f-string.
DomainWords(domain) ==
    IF domain = "a:b" THEN <<"a", ":", "b">> ELSE <<domain>>

\* QueryCache._generate_key: the content f"{domain}:{normalized_query}" that
\* is hashed; md5 is taken to be injective on it.
GenerateKey(query, domain) == DomainWords(domain) \o <<":">> \o Strip(Lower(query))

\* QueryCache.cache is a sequence of entries in the dict's insertion order.
\* The position of a key in it, 0 when absent.
KeyIndex(c, key) ==
    IF \E i \in 1..Len(c) : c[i].key = key
    THEN CHOOSE i \in 1..Len(c) : c[i].key = key
    ELSE 0

\* del self.cache[key]
RemoveAt(c, i) == SubSeq(c, 1, i - 1) \o SubSeq(c, i + 1, Len(c))

\* QueryCache.get: the cache after the call, whether a value was returned
\* (hit) and the value (None when hit is FALSE).
CacheGet(c, query, domain, time) ==
    LET i == KeyIndex(c, GenerateKey(query, domain))
    IN IF i = 0 THEN [cache |-> c, hit |-> FALSE, data |-> <<>>]
       ELSE IF time > c[i].expires_at
       THEN [cache |-> RemoveAt(c, i), hit |-> FALSE, data |-> <<>>]
       ELSE [cache |-> [c EXCEPT ![i].hits = @ + 1], hit |-> TRUE, data |-> c[i].data]

\* An eviction by use: the first of the entries read least often.
EvictLeastRead(c) ==
    IF c = <<>> THEN c
    ELSE LET least == CHOOSE i \in 1..Len(c) :
                         /\ \A j \in 1..Len(c) : c[i].hits <= c[j].hits
                         /\ \A j \in 1..(i - 1) : c[j].hits > c[i].hits
         IN RemoveAt(c, least)

\* QueryCache._evict_oldest: min() returns the first of the oldest entries in
\* the dict's order.
EvictOldest(c) ==
    IF c = <<>> THEN c
    ELSE LET oldest == CHOOSE i \in 1..Len(c) :
                          /\ \A j \in 1..Len(c) : c[i].created_at <= c[j].created_at
                          /\ \A j \in 1..(i - 1) : c[j].created_at > c[i].created_at
         IN RemoveAt(c, oldest)

\* A set that makes room only for a key the cache does not hold yet.
SetEvictsForNewKey(c, query, domain, data, time) ==
    LET key == GenerateKey(query, domain)
        entry == [key |-> key, data |-> data, expires_at |-> time + ttl,
                  created_at |-> time, hits |-> 0]
        i == KeyIndex(c, key)
    IN IF i # 0 THEN [c EXCEPT ![i] = entry]
       ELSE Append(IF Len(c) >= max_size THEN EvictOldest(c) ELSE c, entry)

\* QueryCache.clear
CacheClear(c) == <<>>

\* QueryCache.set
CacheSet(c, query, domain, data, time) ==
    LET b == IF Len(c) >= max_size THEN EvictOldest(c) ELSE c
        key == GenerateKey(query, domain)
        entry == [key |-> key, data |-> data, expires_at |-> time + ttl,
                  created_at |-> time, hits |-> 0]
        i == KeyIndex(b, key)
    IN IF i = 0 THEN Append(b, entry) ELSE [b EXCEPT ![i] = entry]

\* -------------------------------------------------------------- formatter
\* A call that returns v, and a call that raises an exception with text e.
Return(v) == [raised |-> FALSE, value |-> v, exc |-> ""]
Raise(e) == [raised |-> TRUE, value |-> <<>>, exc |-> e]

\* A Python str handed to a pydantic model, and a ScenarioCandidate.
PyStr(text) == [py_type |-> "str", text |-> text]
ScenarioCandidate(sub_id, question, endpoint) ==
    [py_type |-> "ScenarioCandidate", sub_id |-> sub_id, question |-> question,
     endpoint |-> endpoint]

\* Validation of ScenarioRecommendation.recommendations: List[ScenarioCandidate].
\* pydantic accepts an instance of the model (or a dict of its fields) and
\* rejects any other value, a str among them, with a ValidationError.
ValidRecommendations(recommendations) ==
    \A i \in 1..Len(recommendations) : recommendations[i].py_type = "ScenarioCandidate"

\* Validation of a field declared str: None is rejected with a ValidationError.
ValidStr(v) == v # None

\* MessageFormatter.format_recommendation, followed by model_dump()
FormatRecommendation(session_id, message_id, query, recommendations) ==
    IF ValidRecommendations(recommendations)
    THEN Return([session_id |-> session_id, message_id |-> message_id,
                 sub_id |-> None, type |-> "scenario_recommendation",
                 recommendations |-> recommendations, query |-> query])
    ELSE Raise("ValidationError: recommendations")

\* MessageFormatter.format_result, followed by model_dump()
FormatResult(session_id, message_id, sub_id, agent, content, is_complete, error) ==
    IF ValidStr(agent) /\ ValidStr(content)
    THEN Return([session_id |-> session_id, message_id |-> message_id,
                 sub_id |-> sub_id, type |-> "scenario_result", agent |-> agent,
                 content |-> content, is_complete |-> is_complete, error |-> error])
    ELSE Raise("ValidationError: content")

\* ------------------------------------------------------------- dispatcher
\* create_error_response(error_msg, result=None)
CreateErrorResponse(error_msg) ==
    [status |-> "error", error |-> error_msg, result |-> None]

\* {"result": response.text, "status": "success"}
SuccessResult(text) == [result |-> text, status |-> "success"]

\* "timed out" in error
HasTimedOut(error) == error \in {"Request timed out"}

\* "connect" in error.lower()
HasConnect(error) ==
    error \in {"Failed to connect to SQL agent", "Failed to connect to tool agent",
               "Connection error"}

\* A test that finds every error worth another attempt: what the claim on
\* errors that are not retried rules out.
EveryErrorRetryable(error) == TRUE

\* The test of _retry_on_failure for an error that is worth another attempt.
Retryable(error) == HasTimedOut(error) \/ HasConnect(error)

\* 2**attempt
RECURSIVE Pow2(_)
Pow2(n) == IF n = 0 THEN 1 ELSE 2 * Pow2(n - 1)

\* A delay that does not grow: what the claim on the backoff rules out.
FixedDelay(attempt) == retry_delay

\* delay = self.retry_delay * (2**attempt)
BackoffDelay(attempt) == retry_delay * Pow2(attempt)

\* The agent types a caller names; the last is none the dispatcher knows.
AgentTypes == {"sqlagent", "toolagent", "otheragent"}

\* The domain under which an agent kind keeps its results in the cache.
AgentKind(agent_type) == IF agent_type = "sqlagent" THEN "sql_agent" ELSE "tool_agent"

\* f"Unknown agent type: {agent_type}"
UnknownAgentType(agent_type) ==
    CASE agent_type = "otheragent" -> "Unknown agent type: otheragent"
      [] OTHER -> "Unknown agent type"

\* What one network call can end in: HTTP 200, another status, TimeoutError,
\* httpx.ConnectError, any other exception.
Outcomes == {"ok", "status", "timeout", "connect", "exception"}

\* What a test double standing in for _call_sql_agent / _call_tool_agent can
\* end in: it returns a success result or raises.
StubOutcomes == {"stub_ok", "stub_raise"}

\* response.text
ResponseText == "answer"

\* No result yet.
NoResult == [status |-> "none"]

\* A sub-query of a fan-out (or the single call of a retry): the coroutine
\* _call_sql_agent / _call_tool_agent / _create_error_result for it.
\*   st       "calling" (awaiting client.get), "sleeping" (awaiting
\*            asyncio.sleep), "done"
\*   attempt  the loop variable of _retry_on_failure
\*   hist     what each attempt ended in ("cached" for a cache hit)
\*   delays   the delays slept so far
NewTask(agent_type, query, sub_id, stub) ==
    [st |-> "new", stub |-> stub, agent_type |-> agent_type, query |-> query,
     sub_id |-> sub_id, attempt |-> 0, result |-> NoResult, last_error |-> None,
     hist |-> <<>>, delays |-> <<>>]

\* _retry_on_failure, lines 87-100: what follows the result of an attempt.
OnResult(task, result) ==
    IF result.status = "success" \/ task.attempt = max_retries - 1
    THEN [task EXCEPT !.st = "done", !.result = result]
    ELSE LET error == DictGet(result, "error", "")
         IN IF Retryable(error)
            THEN [task EXCEPT !.st = "sleeping",
                              !.delays = Append(@, BackoffDelay(task.attempt)),
                              !.last_error = error]
            ELSE [task EXCEPT !.st = "done", !.result = result]

\* An except clause that classifies the text of the exception as the loop
\* classifies the error of a returned result.
ClassifyRaised(task, exc) ==
    IF task.attempt < max_retries - 1 /\ Retryable(exc)
    THEN [task EXCEPT !.st = "sleeping",
                      !.delays = Append(@, BackoffDelay(task.attempt)),
                      !.last_error = exc]
    ELSE [task EXCEPT !.st = "done", !.last_error = exc,
                      !.result = CreateErrorResponse(exc)]

\* _retry_on_failure, lines 102-109: the except clause, for an attempt that
\* raised an exception with text exc.
OnRaise(task, exc) ==
    IF task.attempt < max_retries - 1
    THEN [task EXCEPT !.st = "sleeping",
                      !.delays = Append(@, BackoffDelay(task.attempt)),
                      !.last_error = exc]
    ELSE [task EXCEPT !.st = "done", !.last_error = exc,
                      !.result = CreateErrorResponse(exc)]

\* One iteration of the loop of _retry_on_failure up to its first suspension:
\* _call_sql_agent_once / _call_tool_agent_once looks the query up in the
\* cache and, on a miss, awaits client.get.
StartAttempt(task, ac, time) ==
    LET g == CacheGet(ac, task.query, AgentKind(task.agent_type), time)
    IN IF g.hit /\ DOMAIN g.data # {}
       THEN [task |-> OnResult([task EXCEPT !.hist = Append(@, "cached")], g.data),
             cache |-> g.cache]
       ELSE [task |-> [task EXCEPT !.st = "calling"], cache |-> g.cache]

\* The coroutine of a sub-query run up to its first suspension.
StartTask(task, ac, time) ==
    IF task.stub
    THEN [task |-> [task EXCEPT !.st = "calling"], cache |-> ac]
    ELSE IF task.agent_type \in {"sqlagent", "toolagent"}
    THEN StartAttempt(task, ac, time)
    ELSE [task |-> [task EXCEPT !.st = "done",
                      !.result = CreateErrorResponse(UnknownAgentType(task.agent_type))],
          cache |-> ac]

\* An attempt that caches whatever it returns, error results included.
CacheEveryResult(task, outcome, ac, time) ==
    LET result == CASE outcome = "ok" -> SuccessResult(ResponseText)
                    [] outcome = "status" ->
                         CreateErrorResponse("Agent returned status 404")
                    [] outcome = "timeout" -> CreateErrorResponse("Request timed out")
                    [] outcome = "connect" ->
                         CreateErrorResponse("Failed to connect to SQL agent")
                    [] OTHER -> CreateErrorResponse("certificate verify failed")
    IN [result |-> result,
        cache |-> CacheSet(ac, task.query, AgentKind(task.agent_type), result, time)]

\* _call_sql_agent_once / _call_tool_agent_once after client.get: the result
\* of the attempt and the cache after it.
OnceResult(task, outcome, ac, time) ==
    CASE outcome = "ok" ->
           [result |-> SuccessResult(ResponseText),
            cache |-> CacheSet(ac, task.query, AgentKind(task.agent_type),
                               SuccessResult(ResponseText), time)]
      [] outcome = "status" ->
           [result |-> CreateErrorResponse("Agent returned status 404"), cache |-> ac]
      [] outcome = "timeout" ->
           [result |-> CreateErrorResponse("Request timed out"), cache |-> ac]
      [] outcome = "connect" ->
           [result |-> CreateErrorResponse(
                           IF task.agent_type = "sqlagent"
                           THEN "Failed to connect to SQL agent"
                           ELSE "Failed to connect to tool agent"),
            cache |-> ac]
      [] OTHER ->
           [result |-> CreateErrorResponse("certificate verify failed"), cache |-> ac]

\* The awaited call of a sub-query comes back.
TaskResponse(task, outcome, ac, time) ==
    IF task.stub
    THEN [task |-> [task EXCEPT !.st = "done",
                      !.hist = Append(@, outcome),
                      !.result = IF outcome = "stub_ok"
                                 THEN SuccessResult(ResponseText)
                                 ELSE [status |-> "raised", exc |-> "Connection error"]],
          cache |-> ac]
    ELSE LET r == OnceResult(task, outcome, ac, time)
         IN [task |-> OnResult([task EXCEPT !.hist = Append(@, outcome)], r.result),
             cache |-> r.cache]

\* A backoff sleep that never ends: the sub-query stays where it is.
NeverWakes(task, ac, time) == [task |-> task, cache |-> ac]

\* asyncio.sleep(delay) is over: the next iteration of the loop.
TaskWakeUp(task, ac, time) ==
    StartAttempt([task EXCEPT !.attempt = @ + 1], ac, time)

\* asyncio.gather starts the coroutines in order; each runs up to its first
\* suspension.
RECURSIVE StartAll(_, _, _, _)
StartAll(ts, i, ac, time) ==
    IF i > Len(ts) THEN [tasks |-> ts, cache |-> ac]
    ELSE LET r == StartTask(ts[i], ac, time)
         IN StartAll([ts EXCEPT ![i] = r.task], i + 1, r.cache, time)

\* results[sub_id] = value on a dict kept as a sequence of pairs
DictPut(d, sub_id, value) ==
    IF \E i \in 1..Len(d) : d[i].sub_id = sub_id
    THEN [i \in 1..Len(d) |->
            IF d[i].sub_id = sub_id THEN [sub_id |-> sub_id, result |-> value] ELSE d[i]]
    ELSE Append(d, [sub_id |-> sub_id, result |-> value])

\* The gathered results mapped to the sub_ids last sub-query first.
MapReversed(ts, results) ==
    [i \in 1..Len(ts) |->
        [sub_id |-> ts[Len(ts) + 1 - i].sub_id,
         result |-> IF ts[Len(ts) + 1 - i].result.status = "raised"
                    THEN CreateErrorResponse(ts[Len(ts) + 1 - i].result.exc)
                    ELSE ts[Len(ts) + 1 - i].result]]

\* call_agents, lines 69-76: map the gathered results back to the sub_ids.
RECURSIVE MapResults(_, _)
MapResults(ts, results) ==
    IF ts = <<>> THEN results
    ELSE MapResults(Tail(ts),
             DictPut(results, Head(ts).sub_id,
                     IF Head(ts).result.status = "raised"
                     THEN CreateErrorResponse(Head(ts).result.exc)
                     ELSE Head(ts).result))

AllDone(ts) == \A i \in 1..Len(ts) : ts[i].st = "done"

\* ---------------------------------------------------------------- service
VARIABLES
    now,          \* time.time(), in ticks
    use_cache,    \* ScenarioService.use_cache
    cache,        \* ScenarioService.cache.cache
    agent_cache,  \* ParallelAgentCaller.cache.cache
    query_store,  \* ScenarioService.query_store
    tasks,        \* the coroutines of the sub-queries in flight
    ctx,          \* the coroutine serving the current operation
    sent,         \* what websocket.send_json has sent for the current operation
    next_id,      \* the uuid the next run draws
    ops,          \* the number of operations invoked so far
    conns,        \* the connections to /ws/scenario, each with its service
    user_request_times,  \* scenario_router.user_request_times
    checks        \* the calls of check_rate_limit so far and what they returned

\* The state of the router.
router_vars == <<conns, user_request_times, checks>>

vars == <<now, use_cache, cache, agent_cache, query_store, tasks, ctx, sent,
          next_id, ops, conns, user_request_times, checks>>

NoMessage == [type |-> "none"]

\* The coroutine of an operation.
\*   op    "process" (process_scenario), "retry" (retry_agent_call),
\*         "call_agents" (call_agents invoked by a caller of its own)
\*   pc    where it is suspended: "send" (await websocket.send_json, with the
\*         message in pending and the label of the code after it in cont),
\*         "gather" (await asyncio.gather), "call" (await _call_sql_agent /
\*         _call_tool_agent), or "idle" once it has returned
\*   the locals of the operation under their names in the code
\*   dispatches, agent_calls, cache_written, escalated, raised: a record of
\*         what the operation did (calls of call_agents, calls of
\*         _call_sql_agent / _call_tool_agent, a cache.set, the except clause
\*         taken, an exception that left the operation)
IdleCtx ==
    [op |-> "none", pc |-> "idle", cont |-> "end", message_id |-> 0,
     query |-> <<>>, domain |-> "", recommendations |-> <<>>,
     cached_results |-> <<>>, results |-> <<>>, idx |-> 0, pending |-> NoMessage,
     sub_id |-> "", agent_type |-> "", original_query |-> <<>>, found |-> FALSE,
     dispatches |-> 0, agent_calls |-> <<>>, cache_written |-> FALSE,
     escalated |-> FALSE, raised |-> FALSE]

\* The variables an operation of the service reads and writes, as one record.
State ==
    [cache |-> cache, agent_cache |-> agent_cache, query_store |-> query_store,
     tasks |-> tasks, ctx |-> ctx, sent |-> sent]

\* await self._send_websocket_message(websocket, message): suspend with the
\* message to send and the label of the code that follows the send.
AwaitSend(s, message, cont) ==
    [s EXCEPT !.ctx.pc = "send", !.ctx.pending = message, !.ctx.cont = cont]

\* process_scenario, lines 94-103: the except clause.
ScenarioError(s, e) ==
    AwaitSend([s EXCEPT !.ctx.escalated = TRUE],
              [session_id |-> SessionId, message_id |-> s.ctx.message_id,
               type |-> "error", error |-> e],
              "end")

\* ScenarioService._get_agent_type_for_sub_id
GetAgentTypeForSubId(recommendations, sub_id) ==
    IF \E i \in 1..Len(recommendations) : recommendations[i].sub_id = sub_id
    THEN recommendations[CHOOSE i \in 1..Len(recommendations) :
                            /\ recommendations[i].sub_id = sub_id
                            /\ \A j \in 1..(i - 1) : recommendations[j].sub_id # sub_id
                        ].agent_type
    ELSE "unknown"

\* ScenarioService._should_cache_results
ShouldCacheResults(results) ==
    IF results = <<>> THEN FALSE
    ELSE LET successful ==
                 Cardinality({i \in 1..Len(results) :
                                DictGet(results[i].result, "status", None) = "success"})
         \* success_rate = successful / len(results); success_rate >= 0.8
         IN 10 * successful >= 8 * Len(results)

\* process_scenario, lines 82-92: the next iteration of the loop over
\* results.items(), up to its send.
StreamResults(s) ==
    IF s.ctx.idx >= Len(s.ctx.results)
    THEN [s EXCEPT !.ctx.pc = "idle"]
    ELSE LET item == s.ctx.results[s.ctx.idx + 1]
             result == item.result
             m == FormatResult(SessionId, s.ctx.message_id, item.sub_id,
                               GetAgentTypeForSubId(s.ctx.recommendations, item.sub_id),
                               DictGet(result, "result", ""),
                               TRUE,
                               IF result.status = "error"
                               THEN DictGet(result, "error", None) ELSE None)
         IN IF m.raised THEN ScenarioError(s, m.exc)
            ELSE AwaitSend([s EXCEPT !.ctx.idx = @ + 1], m.value, "stream")

\* process_scenario, lines 74-79: call_agents has returned.
AfterCallAgents(s, results, time) ==
    LET write == use_cache /\ ShouldCacheResults(results)
        s1 == [s EXCEPT !.ctx.results = results,
                        !.ctx.cache_written = write,
                        !.cache = IF write
                                  THEN CacheSet(s.cache, s.ctx.query, s.ctx.domain,
                                                results, time)
                                  ELSE @]
    IN StreamResults(s1)

\* call_agents, lines 36-67: build the coroutines and gather them.
CallAgents(s, queries, stubs, time) ==
    LET ts == [i \in 1..Len(queries) |->
                 NewTask(queries[i].agent_type, queries[i].query, queries[i].sub_id,
                         i \in stubs)]
        r == StartAll(ts, 1, s.agent_cache, time)
    IN [s EXCEPT !.tasks = r.tasks, !.agent_cache = r.cache,
                 !.ctx.pc = "gather", !.ctx.dispatches = @ + 1]

\* result.get("result", ""), as line 86 of process_scenario has it: the null of
\* an error result gets through.
ContentWithDefault(result) == DictGet(result, "result", "")

\* retry_agent_call, line 166: result.get("result") or ""
RetryContent(result) ==
    LET r == DictGet(result, "result", None)
    IN IF r = None THEN "" ELSE r

\* A retry that, once its call has returned, drops the run from the query
\* store and empties the run-level cache.
RetryForgets(s) ==
    LET result == s.tasks[1].result
        s1 == [s EXCEPT !.cache = <<>>,
                        !.query_store = [m \in DOMAIN s.query_store
                                                 \ {s.ctx.message_id} |->
                                            s.query_store[m]]]
    IN AwaitSend(s1, FormatResult(SessionId, s.ctx.message_id, s.ctx.sub_id,
                                  s.ctx.agent_type, "", TRUE,
                                  IF result.status = "error"
                                  THEN DictGet(result, "error", None) ELSE None).value,
                 "end")

\* retry_agent_call, lines 160-184: the agent call has returned.
RetryAfterCall(s) ==
    LET result == s.tasks[1].result
        m == FormatResult(SessionId, s.ctx.message_id, s.ctx.sub_id, s.ctx.agent_type,
                          RetryContent(result),
                          TRUE,
                          IF result.status = "error"
                          THEN DictGet(result, "error", None) ELSE None)
    IN IF m.raised
       THEN AwaitSend(s, FormatResult(SessionId, s.ctx.message_id, s.ctx.sub_id,
                                      s.ctx.agent_type, "", TRUE,
                                      "Retry failed").value, "end")
       ELSE AwaitSend(s, m.value, "end")

\* asyncio.gather without return_exceptions: the first exception of a
\* sub-query leaves gather and call_agents.
gather_raises == FALSE

\* asyncio.gather(..., return_exceptions=True)
return_exceptions == TRUE

Raised(ts) == \E i \in 1..Len(ts) : ts[i].st = "done" /\ ts[i].result.status = "raised"

\* The suspended coroutine goes on once what it awaits is there: gather once
\* every sub-query has resolved (without return_exceptions, as soon as one has
\* raised), the single call of a retry once it has.
Resume(s, time) ==
    IF s.ctx.pc = "gather" /\ ~return_exceptions /\ Raised(s.tasks)
    THEN IF s.ctx.op = "process"
         THEN ScenarioError(s, "Connection error")
         ELSE [s EXCEPT !.ctx.pc = "idle", !.ctx.raised = TRUE]
    ELSE IF s.ctx.pc = "gather" /\ AllDone(s.tasks)
    THEN LET results == MapResults(s.tasks, <<>>)
         IN IF s.ctx.op = "process"
            THEN AfterCallAgents(s, results, time)
            ELSE [s EXCEPT !.ctx.pc = "idle", !.ctx.results = results]
    ELSE IF s.ctx.pc = "call" /\ AllDone(s.tasks)
    THEN RetryAfterCall(s)
    ELSE s

\* process_scenario, lines 70-79, after the recommendation has been sent.
AfterRecommendation(s, time) ==
    IF s.ctx.cached_results # <<>>
    THEN StreamResults([s EXCEPT !.ctx.results = s.ctx.cached_results])
    ELSE Resume(CallAgents(s, s.ctx.recommendations, {}, time), time)

\* {rec.sub_id: rec.query for rec in recommendations}
QueriesBySubId(recommendations) ==
    [id \in {recommendations[i].sub_id : i \in 1..Len(recommendations)} |->
        recommendations[CHOOSE i \in 1..Len(recommendations) :
           /\ recommendations[i].sub_id = id
           /\ \A j \in (i + 1)..Len(recommendations) :
                 recommendations[j].sub_id # id].query]

\* A store that keeps the sub-queries of the latest run only.
KeepLatestOnly(store, message_id, recommendations) ==
    [m \in {message_id} |-> QueriesBySubId(recommendations)]

\* process_scenario, lines 57-59: self.query_store[message_id] = {...}
StoreQueries(store, message_id, recommendations) ==
    [m \in DOMAIN store \cup {message_id} |->
        IF m = message_id THEN QueriesBySubId(recommendations) ELSE store[m]]

\* process_scenario, lines 36-68, up to the first send.
ProcessScenario(s, query, message_id, time) ==
    LET analysis == Analyze(query)
        domain == DictGet(analysis, "domain", "general")
        g == IF use_cache THEN CacheGet(s.cache, query, domain, time)
             ELSE [cache |-> s.cache, hit |-> FALSE, data |-> <<>>]
        recommendations == Generate(query, analysis)
        recommendation_texts ==
            [i \in 1..Len(recommendations) |-> PyStr(recommendations[i].query)]
        s1 == [s EXCEPT !.cache = g.cache,
                        !.query_store = StoreQueries(@, message_id, recommendations),
                        !.tasks = <<>>,
                        !.sent = <<>>,
                        !.ctx = [IdleCtx EXCEPT !.op = "process",
                                                !.message_id = message_id,
                                                !.query = query,
                                                !.domain = domain,
                                                !.recommendations = recommendations,
                                                !.cached_results = g.data]]
        rec_message == FormatRecommendation(SessionId, message_id, query,
                                            recommendation_texts)
    IN IF rec_message.raised THEN ScenarioError(s1, rec_message.exc)
       ELSE AwaitSend(s1, rec_message.value, "after_rec")

\* A lookup that finds something under every id: the empty text where
\* nothing is stored.
StoredOrEmpty(store, message_id, sub_id) ==
    [found |-> TRUE,
     query |-> IF message_id \in DOMAIN store /\ sub_id \in DOMAIN store[message_id]
               THEN store[message_id][sub_id] ELSE <<>>]

\* retry_agent_call, lines 135-137: the original query of the sub-query in
\* the query store, if it is there.
StoredQuery(store, message_id, sub_id) ==
    IF message_id \in DOMAIN store /\ sub_id \in DOMAIN store[message_id]
    THEN [found |-> TRUE, query |-> store[message_id][sub_id]]
    ELSE [found |-> FALSE, query |-> <<>>]

\* retry_agent_call, lines 130-158, up to the first suspension.
RetryAgentCall(s, message_id, sub_id, agent_type, time) ==
    LET stored == StoredQuery(s.query_store, message_id, sub_id)
        found == stored.found
        original_query == stored.query
        s1 == [s EXCEPT !.tasks = <<>>,
                        !.sent = <<>>,
                        !.ctx = [IdleCtx EXCEPT !.op = "retry",
                                                !.message_id = message_id,
                                                !.sub_id = sub_id,
                                                !.agent_type = agent_type,
                                                !.found = found,
                                                !.original_query = original_query]]
    IN IF ~found
       THEN AwaitSend(s1, FormatResult(SessionId, message_id, sub_id, agent_type, "",
                                       TRUE, "Original query not found for retry").value,
                      "end")
       ELSE IF agent_type \in {"sqlagent", "toolagent"}
       THEN LET r == StartAttempt(NewTask(agent_type, original_query, sub_id, FALSE),
                                  s1.agent_cache, time)
            IN Resume([s1 EXCEPT !.tasks = <<r.task>>, !.agent_cache = r.cache,
                                 !.ctx.pc = "call",
                                 !.ctx.agent_calls =
                                     Append(@, [agent_type |-> agent_type,
                                                query |-> original_query])],
                      time)
       ELSE Resume([s1 EXCEPT !.tasks =
                                <<[NewTask(agent_type, original_query, sub_id, FALSE)
                                     EXCEPT !.st = "done",
                                            !.result = CreateErrorResponse(
                                                           UnknownAgentType(agent_type))]>>,
                              !.ctx.pc = "call"],
                   time)

\* websocket.send_json has sent the pending message: the code after the send.
AfterSend(s, time) ==
    LET s1 == [s EXCEPT !.sent = Append(@, s.ctx.pending),
                        !.ctx.pending = NoMessage]
    IN CASE s.ctx.cont = "after_rec" -> AfterRecommendation(s1, time)
         [] s.ctx.cont = "stream" -> StreamResults(s1)
         [] OTHER -> [s1 EXCEPT !.ctx.pc = "idle"]

\* The call sub-query i awaits comes back with the outcome; the coroutine
\* that awaits the sub-queries goes on if it can.
OnAgentResponse(s, i, outcome, time) ==
    LET r == TaskResponse(s.tasks[i], outcome, s.agent_cache, time)
    IN Resume([s EXCEPT !.tasks[i] = r.task, !.agent_cache = r.cache], time)

\* The backoff sleep of sub-query i is over.
OnBackoffElapsed(s, i, time) ==
    LET r == TaskWakeUp(s.tasks[i], s.agent_cache, time)
    IN Resume([s EXCEPT !.tasks[i] = r.task, !.agent_cache = r.cache], time)

\* ---------------------------------------------------------------- actions
Assign(s) ==
    /\ cache' = s.cache
    /\ agent_cache' = s.agent_cache
    /\ query_store' = s.query_store
    /\ tasks' = s.tasks
    /\ ctx' = s.ctx
    /\ sent' = s.sent

Init ==
    /\ now = 0
    /\ use_cache \in BOOLEAN
    /\ cache = <<>>
    /\ agent_cache = <<>>
    /\ query_store = <<>>
    /\ tasks = <<>>
    /\ ctx = IdleCtx
    /\ sent = <<>>
    /\ next_id = 1
    /\ ops = 0
    /\ conns = <<>>
    /\ user_request_times = <<>>
    /\ checks = <<>>

\* The message ids and sub_ids a retry names: those of the runs so far, and
\* one of no run; the ids of two sub-queries of different agent types, and one
\* that no run has.
RetryMessageIds == 1..(MaxOps + 1)
RetrySubIds == {"rec-1", "rec-4", "sub-1"}

\* A caller invokes process_scenario(query, session_id, websocket).
DoProcessScenario ==
    \E query \in Queries :
        /\ ctx.pc = "idle"
        /\ ops < MaxOps
        /\ Assign(ProcessScenario(State, query, next_id, now))
        /\ next_id' = next_id + 1
        /\ ops' = ops + 1
        /\ UNCHANGED <<now, use_cache>>
        /\ UNCHANGED router_vars

\* A caller invokes retry_agent_call(message_id, sub_id, agent_type, ...).
DoRetryAgentCall ==
    \E message_id \in RetryMessageIds, sub_id \in RetrySubIds, agent_type \in AgentTypes :
        /\ ctx.pc = "idle"
        /\ ops < MaxOps
        /\ Assign(RetryAgentCall(State, message_id, sub_id, agent_type, now))
        /\ ops' = ops + 1
        /\ UNCHANGED <<now, use_cache, next_id>>
        /\ UNCHANGED router_vars

\* websocket.send_json completes.
WsSend ==
    /\ ctx.pc = "send"
    /\ Assign(AfterSend(State, now))
    /\ UNCHANGED <<now, use_cache, next_id, ops>>
    /\ UNCHANGED router_vars

\* The call a sub-query awaits comes back.
AgentResponse ==
    \E i \in 1..Len(tasks) :
        /\ tasks[i].st = "calling"
        /\ \E outcome \in (IF tasks[i].stub THEN StubOutcomes ELSE Outcomes) :
              Assign(OnAgentResponse(State, i, outcome, now))
        /\ UNCHANGED <<now, use_cache, next_id, ops>>
        /\ UNCHANGED router_vars

\* The backoff sleep of a sub-query is over.
BackoffElapsed ==
    \E i \in 1..Len(tasks) :
        /\ tasks[i].st = "sleeping"
        /\ Assign(OnBackoffElapsed(State, i, now))
        /\ UNCHANGED <<now, use_cache, next_id, ops>>
        /\ UNCHANGED router_vars

\* Time passes.
Tick ==
    /\ now < MaxTime
    /\ now' = now + 1
    /\ UNCHANGED <<use_cache, cache, agent_cache, query_store, tasks, ctx, sent,
                   next_id, ops>>
    /\ UNCHANGED router_vars

Next ==
    \/ DoProcessScenario
    \/ DoRetryAgentCall
    \/ WsSend
    \/ AgentResponse
    \/ BackoffElapsed
    \/ Tick

\* The service as a connection drives it.
Spec == Init /\ [][Next]_vars

\* The texts of the sub-queries a caller of call_agents sends: two of them
\* equal up to case, so that they share a cache entry.
DispatchTexts == {<<"q1">>, <<"Q1">>}

\* The lists of sub-queries a caller hands to call_agents, with the pairwise
\* distinct sub_ids of the generator.
QueryLists ==
    UNION { [1..n -> [agent_type : AgentTypes, query : DispatchTexts]] :
              n \in 0..MaxQueries }

\* A caller of its own (a unit test, another service) invokes
\* call_agents(queries, session_id); stubs are the sub-queries whose
\* _call_sql_agent / _call_tool_agent it has replaced by a test double.
DoCallAgents ==
    \E qs \in QueryLists :
      \E stubs \in SUBSET {i \in 1..Len(qs) : qs[i].agent_type # "otheragent"} :
        /\ ctx.pc = "idle"
        /\ ops < MaxCalls
        /\ LET queries == [i \in 1..Len(qs) |->
                             AgentQuery(qs[i].agent_type, qs[i].query, SubId(i))]
               s1 == [State EXCEPT !.tasks = <<>>, !.sent = <<>>,
                                   !.ctx = [IdleCtx EXCEPT !.op = "call_agents"]]
           IN Assign(Resume(CallAgents(s1, queries, stubs, now), now))
        /\ ops' = ops + 1
        /\ UNCHANGED <<now, use_cache, next_id>>
        /\ UNCHANGED router_vars

NextDispatcher ==
    \/ DoCallAgents
    \/ AgentResponse
    \/ BackoffElapsed
    \/ Tick

\* The dispatcher as a caller of call_agents drives it.
SpecDispatcher == Init /\ [][NextDispatcher]_vars

\* ----------------------------------------------------------------- claims
\* The operation in ctx has returned.
Finished(op) == ctx.op = op /\ ctx.pc = "idle"

\* The messages of `out` that are scenario_result messages for sub_id.
ResultsFor(out, sub_id) ==
    {i \in 1..Len(out) : out[i].type = "scenario_result" /\ out[i].sub_id = sub_id}

\* The sends that follow a state whose coroutine awaits nothing but sends, run
\* to the end of the operation.
RECURSIVE RunSends(_, _)
RunSends(s, time) ==
    IF s.ctx.pc = "send" THEN RunSends(AfterSend(s, time), time) ELSE s

QueriesOfTasks == [i \in 1..Len(tasks) |->
                     AgentQuery(tasks[i].agent_type, tasks[i].query, tasks[i].sub_id)]

\* What step 5 of process_scenario (lines 81-103) sends for the result map that
\* call_agents has just returned.
StreamOfReturned ==
    RunSends(StreamResults([State EXCEPT
                 !.sent = <<>>,
                 !.ctx = [IdleCtx EXCEPT !.op = "process", !.message_id = 1,
                                         !.recommendations = QueriesOfTasks,
                                         !.results = ctx.results]]), now).sent

OwnOutcome(task) ==
    IF task.agent_type \notin {"sqlagent", "toolagent"}
    THEN CreateErrorResponse(UnknownAgentType(task.agent_type))
    ELSE LET last == task.hist[Len(task.hist)]
         IN CASE last \in {"ok", "cached", "stub_ok"} -> SuccessResult(ResponseText)
              [] last = "stub_raise" -> CreateErrorResponse("Connection error")
              [] last = "status" -> CreateErrorResponse("Agent returned status 404")
              [] last = "timeout" -> CreateErrorResponse("Request timed out")
              [] last = "connect" ->
                    CreateErrorResponse(IF task.agent_type = "sqlagent"
                                        THEN "Failed to connect to SQL agent"
                                        ELSE "Failed to connect to tool agent")
              [] OTHER -> CreateErrorResponse("certificate verify failed")

\* C4: call_agents returns without raising, only once every sub-query has
\* resolved, a map with exactly one key per sub-query, in which each sub_id
\* maps to the outcome of its own call (a raised exception as an error result
\* with the exception text).
C4_CallAgentsReturnsEveryResult ==
    Finished("call_agents") =>
        /\ ~ctx.raised
        /\ AllDone(tasks)
        /\ Len(ctx.results) = Len(tasks)
        /\ \A i \in 1..Len(tasks) :
              \E k \in 1..Len(ctx.results) :
                  /\ ctx.results[k].sub_id = tasks[i].sub_id
                  /\ ctx.results[k].result = OwnOutcome(tasks[i])

\* A call_agents invocation has returned a map for two or more sub-queries of
\* which one raised and another succeeded, the exception as an error result.
C4_Witness ==
    /\ Finished("call_agents")
    /\ Len(tasks) >= 2
    /\ \E i, j \in 1..Len(tasks) :
          /\ tasks[i].result.status = "raised"
          /\ tasks[j].result.status = "success"
          /\ \E k \in 1..Len(ctx.results) :
                /\ ctx.results[k].sub_id = tasks[i].sub_id
                /\ ctx.results[k].result = CreateErrorResponse("Connection error")

\* Every attempt of the sub-query so far returned an error result whose text
\* holds "timed out" or "connect".
AllRetryable(task) ==
    /\ ~task.stub
    /\ task.hist # <<>>
    /\ \A k \in 1..Len(task.hist) : task.hist[k] \in {"timeout", "connect"}

\* C5: a sub-query all of whose attempts return a retryable error makes
\* max_retries attempts and no more, sleeps retry_delay * 2^k after the failed
\* attempt k (0-based) and before the next, the delays strictly increasing,
\* and resolves to the error result of its last attempt.
C5_ExponentialBackoff ==
    \A i \in 1..Len(tasks) :
        AllRetryable(tasks[i]) =>
            LET t == tasks[i]
                n == Len(t.hist)
            IN /\ n <= max_retries
               /\ t.st = "done" <=> n = max_retries
               /\ Len(t.delays) = (IF n = max_retries THEN n - 1 ELSE n)
               /\ \A k \in 1..Len(t.delays) : t.delays[k] = retry_delay * (2 ^ (k - 1))
               /\ \A k \in 1..(Len(t.delays) - 1) : t.delays[k] < t.delays[k + 1]
               /\ t.st = "done" => t.result = OwnOutcome(t)

\* A sub-query has used up its attempts on retryable errors.
C5_Witness ==
    \E i \in 1..Len(tasks) :
        /\ AllRetryable(tasks[i])
        /\ tasks[i].st = "done"
        /\ Len(tasks[i].hist) = max_retries
        /\ Len(tasks[i].delays) = max_retries - 1

\* C6: an attempt is followed by another one only if it returned a retryable
\* error: after an error result that is not retryable, and after a success,
\* the sub-query resolves at once to that result without a further delay.
C6_NoRetryOfOtherErrors ==
    \A i \in 1..Len(tasks) :
        LET t == tasks[i]
            n == Len(t.hist)
        IN ~t.stub =>
            /\ \A k \in 1..(n - 1) : t.hist[k] \in {"timeout", "connect"}
            /\ (n > 0 /\ t.hist[n] \in {"status", "exception", "ok", "cached"}) =>
                  /\ t.st = "done"
                  /\ t.result = OwnOutcome(t)
                  /\ Len(t.delays) = n - 1

\* A sub-query has resolved after a single attempt that returned an error
\* that is not retryable.
C6_Witness ==
    \E i \in 1..Len(tasks) :
        /\ ~tasks[i].stub
        /\ tasks[i].hist = <<"status">>
        /\ tasks[i].st = "done"
        /\ tasks[i].delays = <<>>
        /\ tasks[i].result = CreateErrorResponse("Agent returned status 404")

\* C7: the result of a sub-query that has resolved is not held back by a
\* sub-query of the same fan-out that has not: it has been handed on for
\* sending while the other is still calling out or waiting in backoff.
C7_ResolvedResultNotHeldBack ==
    ctx.op = "call_agents" =>
        \A i, j \in 1..Len(tasks) :
            (tasks[i].st = "done" /\ tasks[j].st \in {"calling", "sleeping"}) =>
                \E k \in 1..Len(ctx.results) : ctx.results[k].sub_id = tasks[i].sub_id

\* The result map a run caches when all five sub-queries have succeeded.
FiveSuccesses == [n \in 1..5 |-> [sub_id |-> SubId(n),
                                 result |-> SuccessResult(ResponseText)]]

\* A process_scenario run for `query` on this service, once its run-level cache
\* holds the results of an earlier run for `first`, run to its return.
RunAfterCached(first, query) ==
    RunSends(ProcessScenario(
                 [State EXCEPT !.cache = CacheSet(cache, first,
                                                  Analyze(first).domain,
                                                  FiveSuccesses, now)],
                 query, next_id, now), now)

ValidRetry ==
    /\ ctx.op = "retry"
    /\ ctx.message_id \in DOMAIN query_store
    /\ ctx.sub_id \in DOMAIN query_store[ctx.message_id]
    /\ ctx.agent_type \in {"sqlagent", "toolagent"}

\* C10: a retry of a stored sub-query makes one agent call, of the kind of its
\* agent_type and with the stored query text, dispatches no fan-out, sends no
\* recommendation and no error message, and has sent, when it returns, one
\* scenario_result with its message_id and sub_id and is_complete = true, with
\* the content on success and the error on failure.
C10_RetryOneCallOneResult ==
    ValidRetry =>
        /\ ctx.agent_calls = <<[agent_type |-> ctx.agent_type,
                                query |-> query_store[ctx.message_id][ctx.sub_id]]>>
        /\ ctx.dispatches = 0
        /\ Len(tasks) = 1
        /\ tasks[1].agent_type = ctx.agent_type
        /\ tasks[1].query = query_store[ctx.message_id][ctx.sub_id]
        /\ Len(sent) <= 1
        /\ \A i \in 1..Len(sent) :
              /\ sent[i].type = "scenario_result"
              /\ sent[i].message_id = ctx.message_id
              /\ sent[i].sub_id = ctx.sub_id
              /\ sent[i].is_complete
              /\ tasks[1].st = "done"
              /\ IF tasks[1].result.status = "success"
                 THEN sent[i].content = tasks[1].result.result /\ sent[i].error = None
                 ELSE sent[i].content = "" /\ sent[i].error = tasks[1].result.error
        /\ ctx.pc = "idle" => Len(sent) = 1

\* A retry of a stored sub-query has returned after its agent failed.
C10_Witness ==
    /\ ValidRetry
    /\ ctx.pc = "idle"
    /\ Len(sent) = 1
    /\ tasks[1].result.status = "error"
    /\ sent[1].error = "Agent returned status 404"

\* ------------------------------------------------------- QueryCache alone
\* Number of calls of get and set one behaviour of the cache makes.
MaxCacheOps == 2

\* A cache that n calls of set, for n different queries, have filled: the
\* first in minute 0, the others in minute 1.
Prefilled(n) ==
    [i \in 1..n |-> [key |-> GenerateKey(<<ToString(i)>>, "fill"),
                     data |-> SuccessResult("filled"),
                     expires_at |-> (IF i = 1 THEN 0 ELSE 1) + ttl,
                     created_at |-> (IF i = 1 THEN 0 ELSE 1),
                     hits |-> 0]]

\* A new QueryCache, or one the calls before have filled.
InitCache ==
    /\ \/ now = 0 /\ cache = <<>>
       \/ now = 1 /\ cache = Prefilled(max_size)
    /\ use_cache = TRUE
    /\ agent_cache = <<>>
    /\ query_store = <<>>
    /\ tasks = <<>>
    /\ ctx = [op |-> "none", pc |-> "idle"]
    /\ sent = <<>>
    /\ next_id = 1
    /\ ops = 0
    /\ conns = <<>>
    /\ user_request_times = <<>>
    /\ checks = <<>>

\* The (query, domain) pairs of the calls of get: two equal up to case and
\* surrounding whitespace, one that differs from them in the domain only and
\* one in the query only, two whose query and domain both differ but have a
\* colon in them, and one that is in a filled cache.
CacheArgs ==
    { [query |-> <<"q1">>, domain |-> "d1"],
      [query |-> <<" ", "Q1", " ">>, domain |-> "d1"],
      [query |-> <<"q1">>, domain |-> "d2"],
      [query |-> <<"q2">>, domain |-> "d1"],
      [query |-> <<"b", ":", "c">>, domain |-> "a"],
      [query |-> <<"c">>, domain |-> "a:b"],
      [query |-> <<"1">>, domain |-> "fill"] }

\* Those of the calls of set; the last two are in a filled cache, the first
\* of them as its oldest entry.
SetArgs ==
    { [query |-> <<"q1">>, domain |-> "d1"],
      [query |-> <<" ", "Q1", " ">>, domain |-> "d1"],
      [query |-> <<"b", ":", "c">>, domain |-> "a"],
      [query |-> <<"1">>, domain |-> "fill"],
      [query |-> <<"2">>, domain |-> "fill"] }

\* The values cached.
CacheData == {SuccessResult("one"), SuccessResult("two")}

\* A caller invokes cache.set(query, domain, data); ctx keeps the call and the
\* cache before it.
DoCacheSet ==
    \E a \in SetArgs, data \in CacheData :
        /\ ops < MaxCacheOps
        /\ cache' = CacheSet(cache, a.query, a.domain, data, now)
        /\ ctx' = [op |-> "set", pc |-> "idle", query |-> a.query,
                   domain |-> a.domain, data |-> data, before |-> cache,
                   time |-> now]
        /\ ops' = ops + 1
        /\ UNCHANGED <<now, use_cache, agent_cache, query_store, tasks, sent, next_id>>
        /\ UNCHANGED router_vars

\* A caller invokes cache.get(query, domain); ctx keeps the call, what it
\* returned and the cache before it.
DoCacheGet ==
    \E a \in CacheArgs :
        LET g == CacheGet(cache, a.query, a.domain, now)
        IN /\ ops < MaxCacheOps
           /\ cache' = g.cache
           /\ ctx' = [op |-> "get", pc |-> "idle", query |-> a.query,
                      domain |-> a.domain, hit |-> g.hit, data |-> g.data,
                      before |-> cache, time |-> now]
           /\ ops' = ops + 1
           /\ UNCHANGED <<now, use_cache, agent_cache, query_store, tasks, sent, next_id>>
           /\ UNCHANGED router_vars

\* A caller invokes cache.clear().
DoCacheClear ==
    /\ ops < MaxCacheOps
    /\ cache' = CacheClear(cache)
    /\ ctx' = [op |-> "clear", pc |-> "idle", before |-> cache, time |-> now]
    /\ ops' = ops + 1
    /\ UNCHANGED <<now, use_cache, agent_cache, query_store, tasks, sent, next_id>>
    /\ UNCHANGED router_vars

NextCache ==
    \/ DoCacheSet
    \/ DoCacheGet
    \/ DoCacheClear
    \/ Tick

\* A QueryCache as its callers drive it.
SpecCache == InitCache /\ [][NextCache]_vars

\* The entries of cache c under the key of (query, domain).
EntriesOf(c, query, domain) ==
    {i \in 1..Len(c) : c[i].key = GenerateKey(query, domain)}

\* (query, domain) and (q, d) are the same up to the case and the surrounding
\* whitespace of the query.
SameArgs(query, domain, q, d) ==
    d = domain /\ Strip(Lower(q)) = Strip(Lower(query))

\* The entry the last set wrote, if the call in ctx is a set.
WrittenBySet(e) ==
    /\ e.key = GenerateKey(ctx.query, ctx.domain)
    /\ e.data = ctx.data
    /\ e.created_at = ctx.time

C18_VisibleBeforeExpiry ==
    ctx.op = "get" =>
        \A i \in EntriesOf(ctx.before, ctx.query, ctx.domain) :
            /\ ctx.hit <=> ctx.time < ctx.before[i].expires_at
            /\ ~ctx.hit => EntriesOf(cache, ctx.query, ctx.domain) = {}

\* The oldest entries of c: those with the smallest created_at.
Oldest(c) == {i \in 1..Len(c) : \A j \in 1..Len(c) : c[i].created_at <= c[j].created_at}

\* C19: a set for a new key on a cache that holds max_size entries removes
\* exactly one entry, one with the smallest created_at whatever the hit
\* counts are; every other entry is still there as it was and so is the
\* new one.
C19_EvictsOldestCreated ==
    (/\ ctx.op = "set"
     /\ Len(ctx.before) = max_size
     /\ EntriesOf(ctx.before, ctx.query, ctx.domain) = {}) =>
        /\ Len(cache) = max_size
        /\ \E o \in Oldest(ctx.before) :
              /\ \A i \in 1..Len(cache) : cache[i].key # ctx.before[o].key
              /\ \A j \in (1..max_size) \ {o} :
                    \E i \in 1..Len(cache) : cache[i] = ctx.before[j]
        /\ \E i \in 1..Len(cache) : WrittenBySet(cache[i])

\* A full cache whose oldest entry has been read, and others have not, has
\* taken a new key.
C19_Witness ==
    /\ ctx.op = "set"
    /\ Len(ctx.before) = max_size
    /\ EntriesOf(ctx.before, ctx.query, ctx.domain) = {}
    /\ Len(cache) = max_size
    /\ \E o \in Oldest(ctx.before) :
          /\ ctx.before[o].hits > 0
          /\ \A i \in 1..Len(cache) : cache[i].key # ctx.before[o].key
    /\ \E j \in 1..max_size : ctx.before[j].hits = 0

MaxConns == 2
\* The frames the connections receive, all together.
MaxFrames == 3
\* The last minute in which the router is watched.
MaxMinute == 1

\* scenario_router.MAX_REQUESTS_PER_MINUTE
MAX_REQUESTS_PER_MINUTE == 10
\* timedelta(minutes=1) of check_rate_limit, in ticks of the clock (a tick is
\* a minute, ttl is five of them).
minute == 1

ConnIds == 1..MaxConns
Users == {"u1", "u2"}

\* The session ids of the URLs: one uuid.UUID accepts and one it rejects.
SessionIds == {SessionId, "not-a-uuid"}

\* The tokens of the URLs: an access token of each user that is still good,
\* an access token that has expired, a refresh token, one that is no JWT and
\* none at all.
Tokens ==
    {[kind |-> "access", user_id |-> u] : u \in Users}
    \cup {[kind |-> k, user_id |-> "u1"] : k \in {"expired", "refresh"}}
    \cup {[kind |-> k, user_id |-> ""] : k \in {"malformed", "missing"}}

\* A JSON number where a string is due.
JsonNumber == "<number>"

\* The query of a frame that has none.
NoQuery == <<None>>

\* The message id the service gives a run, as the text a client sends back
\* in a retry, and the id a text stands for (0 if for none).
IdText(message_id) == ToString(message_id)

RunIdOf(text) ==
    IF \E n \in 1..MaxFrames : IdText(n) = text
    THEN CHOOSE n \in 1..MaxFrames : IdText(n) = text
    ELSE 0

\* A text of 1001 characters, as one word.
LongWord == "<1001 characters>"

\* The number of characters of the texts the frames carry.
CharLen(q) ==
    IF q = <<>> THEN 0
    ELSE IF LongWord \in {q[i] : i \in 1..Len(q)} THEN 1001
    ELSE Len(q)

\* The text of the valid query.
FrameQuery == <<" ", "tank", " ">>

\* The frames a client sends.
\*   kind "malformed"  a text frame that is no JSON
\*        "not_object" JSON that is no object, as "not a dict"
\*        "object"     a JSON object with the members type, query, message_id,
\*                     sub_id and agent_type; None where the member is absent
\* The message_id of a query message is the client's; that of a retry message
\* the id the service gave the run.
ObjectFrame(type, query, message_id, sub_id, agent_type) ==
    [kind |-> "object", type |-> type, query |-> query, message_id |-> message_id,
     sub_id |-> sub_id, agent_type |-> agent_type]

QueryFrame(query, message_id) == ObjectFrame(None, query, message_id, None, None)

RetryFrame(message_id, sub_id, agent_type) ==
    ObjectFrame("retry", NoQuery, message_id, sub_id, agent_type)

NoFrame == [kind |-> "none"]

ValidQueryFrames == {QueryFrame(FrameQuery, "m-1")}

InvalidQueryFrames ==
    {QueryFrame(<<" ">>, "m-1"),             \* "query": " "
     QueryFrame(<<LongWord>>, "m-1"),
     QueryFrame(<<"<SCRIPT", "x">>, "m-1"),
     QueryFrame(<<"tank">>, None),           \* no message_id
     QueryFrame(<<"tank">>, "bad id!"),
     QueryFrame(<<"tank">>, JsonNumber)}     \* "message_id": 123

\* The retries: of a sub-query of run 1, of a sub-query run 1 does not have,
\* and of a run that never was.
ValidRetryFrames ==
    {RetryFrame(IdText(1), "rec-1", "sqlagent"),
     RetryFrame(IdText(1), "sub-9", "sqlagent"),
     RetryFrame("scenario-0", "rec-1", "toolagent")}

InvalidRetryFrames ==
    {RetryFrame(IdText(1), "rec-1", "otheragent")}

BrokenFrames ==
    {[kind |-> "malformed"], [kind |-> "not_object"],
     ObjectFrame("ping", NoQuery, "m-1", None, None)}

Frames ==
    ValidQueryFrames \cup InvalidQueryFrames \cup ValidRetryFrames
    \cup InvalidRetryFrames \cup BrokenFrames

\* ------------------------------------------- scenario_websocket_schema.py
dangerous_patterns ==
    {"<script", "javascript:", "onerror=", "onclick=", "onload=", "eval(",
     "expression(", "vbscript:"}

\* pydantic's messages.
FieldRequired == "Field required"

\* The texts of the inline errors are the pieces of their f-strings.
InvalidMessage(msg) == <<"Invalid message: ", msg>>
InvalidMessageFormat == <<"Invalid message format">>
RateLimitExceeded == <<"Rate limit exceeded. Please wait before sending more requests.">>
InternalServerError == <<"Internal server error">>

\* ScenarioQueryMessage(**data): the validated message, or the first error
\* of the ValidationError.  The fields are validated in the order query,
\* message_id.
ValidateQuery(v) ==
    IF v = NoQuery THEN Raise(FieldRequired)
    ELSE IF CharLen(v) < 1 THEN Raise("String should have at least 1 character")
    ELSE IF CharLen(v) > 1000 THEN Raise("String should have at most 1000 characters")
    ELSE IF Strip(v) = <<>> THEN Raise("Value error, Query cannot be empty")
    ELSE IF ContainsAny(Lower(Strip(v)), dangerous_patterns)
    THEN Raise("Value error, Query contains potentially dangerous content")
    ELSE Return(Strip(v))

\* re.match(r'^[a-zA-Z0-9\-_]+$', v) on the message ids of the frames.
MatchesIdFormat(v) == v # "bad id!"

ValidateMessageId(v) ==
    IF v = None THEN Raise(FieldRequired)
    ELSE IF v = JsonNumber THEN Raise("Input should be a valid string")
    ELSE IF ~MatchesIdFormat(v) THEN Raise("Value error, Invalid message_id format")
    ELSE Return(v)

ScenarioQueryMessage(data) ==
    LET q == ValidateQuery(data.query)
        m == ValidateMessageId(data.message_id)
    IN IF q.raised THEN q
       ELSE IF m.raised THEN m
       ELSE Return([type |-> "query", query |-> q.value, message_id |-> m.value])

\* ScenarioRetryMessage(**data)
ScenarioRetryMessage(data) ==
    IF data.message_id = None \/ data.sub_id = None \/ data.agent_type = None
    THEN Raise(FieldRequired)
    ELSE IF data.message_id = JsonNumber THEN Raise("Input should be a valid string")
    ELSE IF data.agent_type \notin {"sqlagent", "toolagent"}
    THEN Raise("Value error, Agent type must be 'sqlagent' or 'toolagent'")
    ELSE Return([type |-> "retry", message_id |-> data.message_id,
                 sub_id |-> data.sub_id, agent_type |-> data.agent_type])

\* ScenarioErrorResponse(error=..., message_id=...).model_dump(); message_id
\* is str | None.
ScenarioErrorResponse(error, message_id) ==
    IF message_id = JsonNumber THEN Raise("Input should be a valid string")
    ELSE Return([type |-> "error", error |-> error, message_id |-> message_id])

\* ------------------------------------------------------ scenario_router.py
\* validate_session_id: uuid.UUID(session_id) on the session ids of the URLs.
AnySessionId(session_id) == TRUE

ValidateSessionId(session_id) == session_id # "not-a-uuid"

\* verify_token(token, expected_token_type): the token data of a token that
\* is a JWT with a good signature, not expired and of the expected type, and
\* None of any other.
NoTokenData == [user_id |-> None]

VerifyToken(token, expected_token_type) ==
    IF token.kind = expected_token_type
    THEN [user_id |-> token.user_id]
    ELSE NoTokenData

\* check_rate_limit, line 44, with a limit one request later.
LimitExceededLate(times) == Len(times) > MAX_REQUESTS_PER_MINUTE

\* check_rate_limit, line 44.
LimitExceeded(times) == Len(times) >= MAX_REQUESTS_PER_MINUTE

\* check_rate_limit, line 39, with no entry ever too old to count.
NeverOld(t, time) == TRUE

\* check_rate_limit, lines 34-40: t > minute_ago.
Recent(t, time) == t > time - minute

\* user_request_times[user_id] of the defaultdict.
RequestTimes(urt, user_id) == IF user_id \in DOMAIN urt THEN urt[user_id] ELSE <<>>

\* check_rate_limit(user_id): what it returns and the user_request_times it
\* leaves.
CheckRateLimit(urt, user_id, time) ==
    LET Keep(t) == Recent(t, time)
        kept == SelectSeq(RequestTimes(urt, user_id), Keep)
        Put(times) == [u \in DOMAIN urt \cup {user_id} |->
                         IF u = user_id THEN times ELSE urt[u]]
    IN IF LimitExceeded(kept)
       THEN [ok |-> FALSE, times |-> Put(kept)]
       ELSE [ok |-> TRUE, times |-> Put(Append(kept, time))]

\* lines 93-118: the message of a frame that is JSON, or the error response
\* to send for it, or the exception that building the error response raises.
\*   [message |-> m]   the frame is valid
\*   [reply |-> r]     the inline error to send
\*   [raised |-> e]    an exception leaves the loop
ParseFrame(data) ==
    IF data.kind # "object"
    THEN \* data.get raises AttributeError: except Exception
         [result |-> "reply",
          reply |-> ScenarioErrorResponse(InvalidMessageFormat, None).value]
    ELSE LET msg_type == IF data.type = None THEN "query" ELSE data.type
             v == IF msg_type = "query" THEN ScenarioQueryMessage(data)
                  ELSE ScenarioRetryMessage(data)
         IN IF msg_type \notin {"query", "retry"}
            THEN [result |-> "reply",
                  reply |-> ScenarioErrorResponse(InvalidMessageFormat, None).value]
            ELSE IF v.raised
            THEN LET r == ScenarioErrorResponse(InvalidMessage(v.exc),
                                                data.message_id)
                 IN IF r.raised THEN [result |-> "raised", exc |-> r.exc]
                    ELSE [result |-> "reply", reply |-> r.value]
            ELSE [result |-> "message", message |-> v.value]

\* ScenarioService(): a service of its own, with a QueryCache, a
\* ParallelAgentCaller and a query store of its own.
NewService ==
    [cache |-> <<>>, agent_cache |-> <<>>, query_store |-> <<>>, tasks |-> <<>>,
     ctx |-> IdleCtx, sent |-> <<>>]

\* A connection to /ws/scenario/{session_id}?token=... and its handler.
\*   pc        "new" (not opened yet), "receive" (await websocket.receive_json),
\*             "reply" (await websocket.send_json of the inline error in
\*             pending), "service" (await scenario_service.process_scenario /
\*             retry_agent_call), "fail" (the except Exception clause of the
\*             handler), "closed"
\*   accepted  websocket.accept() has been called
\*   svc       the ScenarioService that Depends(get_scenario_service) made
\*   frame     the frame received last; replies the inline messages the
\*             handler has sent for it; invoked whether it was handed to the
\*             service (the messages the service sent for it are svc.sent)
NewConn ==
    [pc |-> "new", session_id |-> "", token |-> [kind |-> "missing", user_id |-> ""],
     accepted |-> FALSE, close_code |-> 0, user_id |-> "", svc |-> NewService,
     frame |-> NoFrame, pending |-> NoMessage, replies |-> <<>>,
     invoked |-> FALSE]

\* Nine requests of user u1 admitted in minute 0, over connections that have
\* closed since.
NineRequests == [i \in 1..(MAX_REQUESTS_PER_MINUTE - 1) |-> 0]

InitRouter ==
    /\ now = 0
    /\ use_cache = TRUE
    /\ cache = <<>>
    /\ agent_cache = <<>>
    /\ query_store = <<>>
    /\ tasks = <<>>
    /\ ctx = IdleCtx
    /\ sent = <<>>
    /\ next_id = 1
    /\ ops = 0
    /\ conns = [c \in ConnIds |-> NewConn]
    /\ \/ /\ user_request_times = <<>>
          /\ checks = <<>>
       \/ /\ user_request_times = [u \in {"u1"} |-> NineRequests]
          /\ checks = [i \in 1..Len(NineRequests) |->
                         [user_id |-> "u1", time |-> 0, ok |-> TRUE, conn |-> 0]]

service_vars == <<cache, agent_cache, query_store, tasks, ctx, sent>>

\* A handler that starts the operation and goes back to its loop at once.
BackToLoop(conn, s) == [conn EXCEPT !.svc = s, !.pc = "receive"]

\* The connection after a step of its service: back in the loop once the
\* operation has returned, in the except clause if it has raised.
AfterService(conn, s) ==
    [conn EXCEPT !.svc = s,
                 !.pc = IF s.ctx.pc # "idle" THEN "service"
                        ELSE IF s.ctx.raised THEN "fail"
                        ELSE "receive"]

\* A client opens connection c; lines 62-85.  A connection without the token
\* parameter is closed by the framework before the handler runs.
Connect(c) ==
    /\ conns[c].pc = "new"
    /\ \A b \in 1..(c - 1) : conns[b].pc # "new"
    /\ \E session_id \in SessionIds, token \in Tokens :
          LET token_data == VerifyToken(token, "access")
              opened == [conns[c] EXCEPT !.session_id = session_id, !.token = token]
          IN conns' = [conns EXCEPT ![c] =
                 IF \/ token.kind = "missing"
                    \/ ~ValidateSessionId(session_id)
                    \/ token_data = NoTokenData
                 THEN [opened EXCEPT !.pc = "closed", !.close_code = 1008]
                 ELSE [opened EXCEPT !.pc = "receive", !.accepted = TRUE,
                                     !.user_id = token_data.user_id]]
    /\ UNCHANGED <<now, use_cache, next_id, ops, user_request_times, checks>>
    /\ UNCHANGED service_vars

\* Connection c receives a frame; lines 91-154 up to the first suspension.
Receive(c) ==
    /\ conns[c].pc = "receive"
    /\ ops < MaxFrames
    /\ ops' = ops + 1
    /\ \E frame \in Frames :
          LET got == [conns[c] EXCEPT !.frame = frame, !.replies = <<>>,
                                      !.invoked = FALSE]
              p == ParseFrame(frame)
              r == CheckRateLimit(user_request_times, got.user_id, now)
              message == p.message
          IN IF frame.kind = "malformed" \/ p.result = "raised"
             THEN \* receive_json raises JSONDecodeError, or the except
                  \* ValidationError clause raises: except Exception, line 158
                  /\ conns' = [conns EXCEPT ![c] = [got EXCEPT !.pc = "fail"]]
                  /\ UNCHANGED <<next_id, user_request_times, checks>>
             ELSE IF p.result = "reply"
             THEN /\ conns' = [conns EXCEPT ![c] =
                                 [got EXCEPT !.pc = "reply", !.pending = p.reply]]
                  /\ UNCHANGED <<next_id, user_request_times, checks>>
             ELSE /\ user_request_times' = r.times
                  /\ checks' = Append(checks, [user_id |-> got.user_id, time |-> now,
                                               ok |-> r.ok, conn |-> c])
                  /\ IF ~r.ok
                     THEN /\ conns' = [conns EXCEPT ![c] =
                                 [got EXCEPT !.pc = "reply",
                                             !.pending = ScenarioErrorResponse(
                                                 RateLimitExceeded,
                                                 message.message_id).value]]
                          /\ UNCHANGED next_id
                     ELSE IF message.type = "query"
                     THEN /\ conns' = [conns EXCEPT ![c] =
                                 AfterService([got EXCEPT !.invoked = TRUE],
                                              ProcessScenario(got.svc, message.query,
                                                              next_id, now))]
                          /\ next_id' = next_id + 1
                     ELSE /\ conns' = [conns EXCEPT ![c] =
                                 AfterService([got EXCEPT !.invoked = TRUE],
                                              RetryAgentCall(got.svc,
                                                             RunIdOf(message.message_id),
                                                             message.sub_id,
                                                             message.agent_type, now))]
                          /\ UNCHANGED next_id
    /\ UNCHANGED <<now, use_cache>>
    /\ UNCHANGED service_vars

\* websocket.send_json of an inline error completes: continue.
ReplySent(c) ==
    /\ conns[c].pc = "reply"
    /\ conns' = [conns EXCEPT ![c].replies = Append(@, conns[c].pending),
                              ![c].pending = NoMessage,
                              ![c].pc = "receive"]
    /\ UNCHANGED <<now, use_cache, next_id, ops, user_request_times, checks>>
    /\ UNCHANGED service_vars

\* lines 158-167: the handler reports an internal error and closes.
Fail(c) ==
    /\ conns[c].pc = "fail"
    /\ conns' = [conns EXCEPT ![c].replies =
                                 Append(@, [type |-> "error",
                                            error |-> InternalServerError]),
                              ![c].pc = "closed",
                              ![c].close_code = 1011]
    /\ UNCHANGED <<now, use_cache, next_id, ops, user_request_times, checks>>
    /\ UNCHANGED service_vars

\* The client closes connection c: receive_json raises WebSocketDisconnect,
\* lines 156-157.
Disconnect(c) ==
    /\ conns[c].pc = "receive"
    /\ conns' = [conns EXCEPT ![c].pc = "closed", ![c].close_code = 1000]
    /\ UNCHANGED <<now, use_cache, next_id, ops, user_request_times, checks>>
    /\ UNCHANGED service_vars

\* What the network calls of the services behind the router end in: HTTP
\* 200, another status, TimeoutError.
RouterOutcomes == {"ok", "status", "timeout"}

\* websocket.send_json of the service of connection c completes.
ServiceSend(c) ==
    /\ conns[c].pc = "service"
    /\ conns[c].svc.ctx.pc = "send"
    /\ conns' = [conns EXCEPT ![c] = AfterService(@, AfterSend(conns[c].svc, now))]
    /\ UNCHANGED <<now, use_cache, next_id, ops, user_request_times, checks>>
    /\ UNCHANGED service_vars

\* The call a sub-query of the service of connection c awaits comes back.
ServiceAgentResponse(c) ==
    /\ conns[c].pc = "service"
    /\ \E i \in 1..Len(conns[c].svc.tasks), outcome \in RouterOutcomes :
          /\ conns[c].svc.tasks[i].st = "calling"
          /\ conns' = [conns EXCEPT ![c] =
                         AfterService(@, OnAgentResponse(conns[c].svc, i, outcome, now))]
    /\ UNCHANGED <<now, use_cache, next_id, ops, user_request_times, checks>>
    /\ UNCHANGED service_vars

\* The backoff sleep of a sub-query of the service of connection c is over.
ServiceBackoffElapsed(c) ==
    /\ conns[c].pc = "service"
    /\ \E i \in 1..Len(conns[c].svc.tasks) :
          /\ conns[c].svc.tasks[i].st = "sleeping"
          /\ conns' = [conns EXCEPT ![c] =
                         AfterService(@, OnBackoffElapsed(conns[c].svc, i, now))]
    /\ UNCHANGED <<now, use_cache, next_id, ops, user_request_times, checks>>
    /\ UNCHANGED service_vars

\* A minute passes.
Minute ==
    /\ now < MaxMinute
    /\ now' = now + 1
    /\ UNCHANGED <<use_cache, next_id, ops, conns, user_request_times, checks>>
    /\ UNCHANGED service_vars

NextRouter ==
    \/ \E c \in ConnIds : Connect(c)
    \/ \E c \in ConnIds : Receive(c)
    \/ \E c \in ConnIds : ReplySent(c)
    \/ \E c \in ConnIds : Fail(c)
    \/ \E c \in ConnIds : Disconnect(c)
    \/ \E c \in ConnIds : ServiceSend(c)
    \/ \E c \in ConnIds : ServiceAgentResponse(c)
    \/ \E c \in ConnIds : ServiceBackoffElapsed(c)
    \/ Minute

\* The router with the connections it serves.
SpecRouter == InitRouter /\ [][NextRouter]_vars

\* ------------------------------------------------------ router: the claims
\* The frame connection c received last is a retry message that passed the
\* schema and the rate limit and names a sub-query its service has not
\* stored.
RetryOfUnknown(c) ==
    LET conn == conns[c]
        store == conn.svc.query_store
        id == RunIdOf(conn.frame.message_id)
    IN /\ conn.frame.kind = "object"
       /\ conn.frame.type = "retry"
       /\ conn.invoked
       /\ ~(id \in DOMAIN store /\ conn.frame.sub_id \in DOMAIN store[id])

\* C11: a retry whose message_id or sub_id is not in the query store is
\* answered with exactly one scenario_result with is_complete true, content
\* "" and the error "Original query not found for retry"; no agent is called,
\* no message of type "error" is sent, and the server does not close the
\* connection.
C11_RetryOfUnknownQuery ==
    \A c \in ConnIds :
        RetryOfUnknown(c) =>
            LET conn == conns[c]
                s == conn.svc
                out == IF s.ctx.pc = "send" THEN Append(s.sent, s.ctx.pending)
                       ELSE s.sent
            IN /\ s.ctx.agent_calls = <<>>
               /\ s.ctx.dispatches = 0
               /\ s.tasks = <<>>
               /\ conn.replies = <<>>
               /\ conn.pc \in {"service", "receive", "closed"}
               /\ conn.close_code \in {0, 1000}
               /\ s.ctx.pc \in {"send", "idle"}
               /\ Len(out) = 1
               /\ out[1].type = "scenario_result"
               /\ out[1].is_complete
               /\ out[1].content = ""
               /\ out[1].error = "Original query not found for retry"
               /\ out[1].sub_id = conn.frame.sub_id
               /\ out[1].message_id = RunIdOf(conn.frame.message_id)
               /\ conn.pc = "service" <=> s.ctx.pc = "send"

\* The retry of a sub-query that a run of the connection does not have has
\* been answered and the connection is back in its loop.
C11_Witness ==
    \E c \in ConnIds :
        /\ RetryOfUnknown(c)
        /\ RunIdOf(conns[c].frame.message_id) \in DOMAIN conns[c].svc.query_store
        /\ conns[c].pc = "receive"
        /\ Len(conns[c].svc.sent) = 1

\* Connection c has been opened with a session id that is no UUID, or with a
\* token that is missing, expired, malformed or no access token.
BadHandshake(c) ==
    /\ conns[c].pc # "new"
    /\ \/ conns[c].session_id = "not-a-uuid"
       \/ conns[c].token.kind # "access"

InvalidFrames == BrokenFrames \cup InvalidQueryFrames \cup InvalidRetryFrames

\* C14: on an accepted connection every invalid inbound message (malformed
\* JSON, a non-object, a schema failure, an unknown type) is answered with
\* exactly one inline message of type "error", is not handed to the service
\* and does not make the server close the connection.
C14_InvalidFrameInlineError ==
    \A c \in ConnIds :
        conns[c].frame \in InvalidFrames =>
            LET conn == conns[c]
                out == IF conn.pc = "reply" THEN Append(conn.replies, conn.pending)
                       ELSE conn.replies
            IN /\ ~conn.invoked
               /\ conn.pc \in {"reply", "receive", "closed"}
               /\ conn.close_code \in {0, 1000}
               /\ Len(out) = 1
               /\ out[1].type = "error"

\* The frames that are valid messages.
ValidFrames == ValidQueryFrames \cup ValidRetryFrames

\* The requests of the user admitted in the minute that ends at time t,
\* among the first n calls of check_rate_limit.
AdmittedBefore(n, user_id, t) ==
    {i \in 1..n : /\ checks[i].user_id = user_id
                  /\ checks[i].ok
                  /\ checks[i].time > t - minute
                  /\ checks[i].time <= t}

\* C15: over all its connections together a user has at most
\* MAX_REQUESTS_PER_MINUTE messages admitted in any 60 seconds; a valid
\* message that is not admitted is answered with the inline rate-limit error
\* carrying its message_id, is not handed to the service, and the connection
\* stays open.
C15_TenPerMinutePerUser ==
    /\ \A u \in Users, t \in 0..MaxMinute :
          Cardinality(AdmittedBefore(Len(checks), u, t)) <= MAX_REQUESTS_PER_MINUTE
    /\ \A c \in ConnIds :
          (conns[c].frame \in ValidFrames /\ ~conns[c].invoked) =>
              LET conn == conns[c]
                  out == IF conn.pc = "reply" THEN Append(conn.replies, conn.pending)
                         ELSE conn.replies
              IN /\ conn.pc \in {"reply", "receive", "closed"}
                 /\ conn.close_code \in {0, 1000}
                 /\ out = <<[type |-> "error", error |-> RateLimitExceeded,
                             message_id |-> conn.frame.message_id]>>
                 /\ \E i \in 1..Len(checks) :
                       /\ checks[i].conn = c
                       /\ ~checks[i].ok
                       /\ Cardinality(AdmittedBefore(i - 1, conn.user_id, checks[i].time))
                              = MAX_REQUESTS_PER_MINUTE

\* A user has had a message admitted over one connection and, in the same
\* minute, a message turned away over another.
C15_Witness ==
    \E c, d \in ConnIds, i, j \in 1..Len(checks) :
        /\ c # d
        /\ conns[c].user_id = conns[d].user_id
        /\ checks[i].conn = d /\ checks[i].ok
        /\ checks[j].conn = c /\ ~checks[j].ok
        /\ checks[i].time = checks[j].time
        /\ conns[c].pc = "receive"
        /\ conns[c].frame \in ValidFrames
        /\ ~conns[c].invoked

\* Connection c has just received a frame that is no valid message.
ReceivesInvalid(c) ==
    /\ conns[c].pc = "receive"
    /\ conns'[c].pc \in {"reply", "fail"}
    /\ conns'[c].frame \in InvalidFrames

\* C16: a valid message is admitted exactly when fewer than
\* MAX_REQUESTS_PER_MINUTE admitted requests of its user lie in the minute
\* before it, so a user who was turned away is admitted again once enough of
\* them have left the window: the entries are pruned at each check, and
\* neither a message that was turned away nor an invalid one is recorded.
C16_AdmittedAgainAfterWindow ==
    /\ [](\A i \in 1..Len(checks) :
            checks[i].ok <=>
                Cardinality(AdmittedBefore(i - 1, checks[i].user_id, checks[i].time))
                    < MAX_REQUESTS_PER_MINUTE)
    /\ [][\A c \in ConnIds :
            ReceivesInvalid(c) =>
                /\ user_request_times' = user_request_times
                /\ checks' = checks]_vars

\* A user who was turned away has a message admitted a minute later.
C16_Witness ==
    \E c \in ConnIds, i, j \in 1..Len(checks) :
        /\ i < j
        /\ checks[i].user_id = checks[j].user_id
        /\ ~checks[i].ok
        /\ checks[j].ok
        /\ checks[j].conn = c
        /\ checks[j].time > checks[i].time
        /\ conns[c].invoked

\* The entries of cache c that have not expired at the time are in cache d
\* as well.
VisibleIn(c, d, time) ==
    \A i \in 1..Len(c) :
        time < c[i].expires_at => \E j \in 1..Len(d) : d[j].key = c[i].key

\* C20: the run-level cache and the per-agent cache are shared by all
\* connections and users: what the service of one connection has cached,
\* within the TTL, the service of a connection of another user finds.
C20_CachesSharedByConnections ==
    \A c, d \in ConnIds :
        (/\ c # d
         /\ conns[c].accepted
         /\ conns[d].accepted
         /\ conns[c].user_id # conns[d].user_id) =>
            /\ VisibleIn(conns[c].svc.cache, conns[d].svc.cache, now)
            /\ VisibleIn(conns[c].svc.agent_cache, conns[d].svc.agent_cache, now)

\* ------------------------------------------- RecommendationGenerator alone
\* The analysis results handed to generate: every domain with a template
\* table, two without, keyword lists with and without a parameter and an
\* asset, three time periods, and each of them with any of its keys missing.
FullAnalyses ==
    [domain : {"process_performance", "troubleshooting", "performance_comparison",
               "operations", "general"},
     keywords : {<<>>, <<"tank", "level">>, <<"flow", "DC-101">>},
     time_period : {"current", "today", "last_two_weeks"}]

Analyses ==
    {[k \in K |-> a[k]] : a \in FullAnalyses,
                          K \in SUBSET {"domain", "keywords", "time_period"}}

InitGenerator ==
    /\ now = 0
    /\ use_cache = TRUE
    /\ cache = <<>>
    /\ agent_cache = <<>>
    /\ query_store = <<>>
    /\ tasks = <<>>
    /\ ctx \in {[op |-> "none", pc |-> "idle", analysis |-> a] : a \in Analyses}
    /\ sent = <<>>
    /\ next_id = 1
    /\ ops = 0
    /\ conns = <<>>
    /\ user_request_times = <<>>
    /\ checks = <<>>

\* A caller invokes generate(query, analysis).
DoGenerate ==
    /\ ctx.op = "none"
    /\ ctx' = [op |-> "generate", pc |-> "idle", analysis |-> ctx.analysis,
               recommendations |-> Generate(<<"tank">>, ctx.analysis)]
    /\ UNCHANGED <<now, use_cache, cache, agent_cache, query_store, tasks, sent,
                   next_id, ops>>
    /\ UNCHANGED router_vars

\* A caller invokes _ensure_five_recommendations with the first n of the
\* recommendations the templates give.
DoEnsureFive ==
    /\ ctx.op = "none"
    /\ \E n \in 0..5 :
          LET given == SubSeq(Generate(<<"tank">>, ctx.analysis), 1, n)
          IN ctx' = [op |-> "ensure", pc |-> "idle", analysis |-> ctx.analysis,
                     given |-> given,
                     recommendations |-> EnsureFiveRecommendations(given)]
    /\ UNCHANGED <<now, use_cache, cache, agent_cache, query_store, tasks, sent,
                   next_id, ops>>
    /\ UNCHANGED router_vars

NextGenerator == DoGenerate \/ DoEnsureFive

\* The recommendation generator, called by a caller of its own.
SpecGenerator == InitGenerator /\ [][NextGenerator]_vars

\* C21: for every analysis result generate returns exactly five sub-queries
\* whose sub_ids are, in order, rec-1 .. rec-5, each for sqlagent or
\* toolagent; _ensure_five_recommendations fills a shorter list up the same
\* way.
C21_FiveRecommendations ==
    ctx.op \in {"generate", "ensure"} =>
        /\ Len(ctx.recommendations) = 5
        /\ [i \in 1..5 |-> ctx.recommendations[i].sub_id]
              = <<"rec-1", "rec-2", "rec-3", "rec-4", "rec-5">>
        /\ \A i \in 1..5 :
              ctx.recommendations[i].agent_type \in {"sqlagent", "toolagent"}

\* generate has answered for an analysis result that names no domain.
C21_Witness ==
    /\ ctx.op = "generate"
    /\ "domain" \notin DOMAIN ctx.analysis
    /\ Len(ctx.recommendations) = 5

\* ------------------------------------------------- the service: more claims
\* C22: the recommendation message of a run lists one candidate per generated
\* sub-query, in generation order, each with the sub_id of the sub-query, its
\* query text as question and its agent type as endpoint.
C22_RecommendationListsCandidates ==
    (ctx.op = "process" /\ sent # <<>>) =>
        /\ sent[1].type = "scenario_recommendation"
        /\ sent[1].recommendations =
              [i \in 1..Len(ctx.recommendations) |->
                  ScenarioCandidate(ctx.recommendations[i].sub_id,
                                    ctx.recommendations[i].query,
                                    ctx.recommendations[i].agent_type)]

\* What a run for the query stores: the text of each of its sub-queries
\* under its sub_id.
ExpectedStore(query) == QueriesBySubId(Generate(query, Analyze(query)))

\* The service of connection c holds the sub-queries of its current run from
\* before the first message of the run is sent, also when the run finds its
\* results in the run-level cache, and a retry for a stored run and one of the
\* sub_ids rec-1 .. rec-5 finds the text.
StoreServesRetries(c) ==
    LET conn == conns[c]
        s == conn.svc
        cached == [s EXCEPT !.cache = CacheSet(s.cache, Strip(FrameQuery),
                                               Analyze(Strip(FrameQuery)).domain,
                                               FiveSuccesses, now)]
        hit == ProcessScenario(cached, Strip(FrameQuery), next_id, now)
    IN /\ s.ctx.op = "process" =>
             /\ s.ctx.message_id \in DOMAIN s.query_store
             /\ s.query_store[s.ctx.message_id] = ExpectedStore(s.ctx.query)
       /\ (conn.accepted /\ s.ctx.pc = "idle") =>
             /\ hit.ctx.cached_results # <<>>
             /\ hit.sent = <<>>
             /\ next_id \in DOMAIN hit.query_store
             /\ hit.query_store[next_id] = ExpectedStore(Strip(FrameQuery))
       /\ (/\ conn.frame.kind = "object"
           /\ conn.frame.type = "retry"
           /\ conn.invoked
           /\ RunIdOf(conn.frame.message_id) \in DOMAIN s.query_store
           /\ conn.frame.sub_id \in {"rec-1", "rec-2", "rec-3", "rec-4", "rec-5"}) =>
             /\ s.ctx.found
             /\ s.ctx.original_query =
                   ExpectedStore(Strip(FrameQuery))[conn.frame.sub_id]

\* C23: process_scenario stores the text of every sub-query under the
\* message_id of the run before it sends the first message of the run, on
\* cache hits as on misses, and no entry of the store is ever removed or
\* changed: a retry on the same connection for a sub_id of the run finds the
\* text, whatever was processed in between.
C23_QueryStoreKept ==
    /\ [](\A c \in ConnIds : StoreServesRetries(c))
    /\ [][\A c \in ConnIds :
            \A m \in DOMAIN conns[c].svc.query_store :
                /\ m \in DOMAIN conns'[c].svc.query_store
                /\ conns'[c].svc.query_store[m] = conns[c].svc.query_store[m]]_vars

\* After two runs on a connection, a retry for a sub-query of the first has
\* found its text and has been answered.
C23_Witness ==
    \E c \in ConnIds :
        /\ DOMAIN conns[c].svc.query_store = {1, 2}
        /\ conns[c].frame = RetryFrame(IdText(1), "rec-1", "sqlagent")
        /\ conns[c].invoked
        /\ conns[c].svc.ctx.found
        /\ conns[c].pc = "receive"

\* ------------------------------------------------ router: more claims
\* Connection c receives a frame in this step.
ReceivesFrame(c) ==
    /\ conns[c].pc = "receive"
    /\ ops' = ops + 1
    /\ conns'[c] # conns[c]

\* Nothing of an earlier inbound message is outstanding on connection c: no
\* inline message to send, no operation of its service suspended, no
\* sub-query in flight.
NothingOutstanding(c) ==
    /\ conns[c].pending = NoMessage
    /\ conns[c].svc.ctx.pc = "idle"
    /\ conns[c].svc.ctx.pending = NoMessage
    /\ \A i \in 1..Len(conns[c].svc.tasks) : conns[c].svc.tasks[i].st = "done"

\* C24: on one connection inbound messages are handled one at a time: a frame
\* is received only when every message caused by the frames before it has
\* been sent, and a message is sent only for the frame received last, so a
\* retry is never handled while a run of the connection is dispatching or
\* sending, and the messages of two runs never interleave.
C24_OneInboundMessageAtATime ==
    [][\A c \in ConnIds :
          /\ ReceivesFrame(c) => NothingOutstanding(c)
          /\ Len(conns'[c].svc.sent) > Len(conns[c].svc.sent) =>
                /\ conns[c].pc = "service"
                /\ conns[c].invoked
                /\ conns'[c].svc.sent = Append(conns[c].svc.sent,
                                               conns[c].svc.ctx.pending)
                /\ conns[c].svc.ctx.pending.message_id = conns[c].svc.ctx.message_id
          /\ Len(conns'[c].replies) > Len(conns[c].replies) =>
                /\ conns[c].pc \in {"reply", "fail"}
                /\ ~conns[c].invoked]_vars

\* A retry has been answered on a connection that ran a query before it,
\* while the other connection is in the middle of a run.
C24_Witness ==
    \E c, d \in ConnIds :
        /\ c # d
        /\ conns[c].svc.ctx.op = "retry"
        /\ conns[c].svc.ctx.found
        /\ conns[c].pc = "receive"
        /\ conns[d].pc = "service"
        /\ conns[d].svc.ctx.op = "process"

\* ---------------------------------------------- dispatcher: more claims
\* What step 5 of process_scenario sends for the result map that call_agents
\* has just returned once the map has been through the run-level cache.
StreamOfCached ==
    LET stored == CacheSet(cache, <<"q1">>, "general", ctx.results, now)
        got == CacheGet(stored, <<"q1">>, "general", now)
    IN RunSends(StreamResults([State EXCEPT
                   !.sent = <<>>,
                   !.ctx = [IdleCtx EXCEPT !.op = "process", !.message_id = 1,
                                           !.recommendations = QueriesOfTasks,
                                           !.results = got.data]]), now).sent

LiveEntry(ac, query, agent_type, time) ==
    LET i == KeyIndex(ac, GenerateKey(query, AgentKind(agent_type)))
    IN i # 0 /\ time <= ac[i].expires_at

\* Sub-query i starts an attempt in this step: it is new, or its backoff
\* sleep is over.
StartsAttempt(i) ==
    /\ i \in 1..Len(tasks')
    /\ ~tasks'[i].stub
    /\ tasks'[i].agent_type \in {"sqlagent", "toolagent"}
    /\ \/ ops' = ops + 1
       \/ /\ i \in 1..Len(tasks)
          /\ tasks[i].st = "sleeping"
          /\ tasks'[i].attempt = tasks[i].attempt + 1

\* C26: the dispatcher's cache is written with success results only, so every
\* entry in it has status success whatever the agent calls and retries ended
\* in, and an attempt that finds a live entry for its query text and agent
\* kind returns the cached success without a network call.
C26_AgentCacheHoldsSuccessesOnly ==
    /\ [](\A k \in 1..Len(agent_cache) : agent_cache[k].data.status = "success")
    /\ [][\A i \in 1..Len(tasks') :
             (StartsAttempt(i)
                /\ LiveEntry(agent_cache, tasks'[i].query, tasks'[i].agent_type, now)) =>
                /\ tasks'[i].st = "done"
                /\ tasks'[i].result.status = "success"
                /\ tasks'[i].result
                     = agent_cache[KeyIndex(agent_cache,
                                     GenerateKey(tasks'[i].query,
                                                 AgentKind(tasks'[i].agent_type)))].data
                /\ tasks'[i].hist
                     = Append(IF ops' = ops + 1 THEN <<>> ELSE tasks[i].hist,
                              "cached")]_vars

\* A sub-query timed out, slept, and found at its second attempt the success
\* another sub-query had cached meanwhile; the timeout itself left nothing in
\* the cache.
C26_Witness ==
    /\ ctx.op = "call_agents"
    /\ \E i \in 1..Len(tasks) :
          /\ tasks[i].hist = <<"timeout", "cached">>
          /\ tasks[i].st = "done"
          /\ tasks[i].result.status = "success"
    /\ Len(agent_cache) = 1

\* ------------------------------------------------ _retry_on_failure alone
\* What an attempt of a func handed to _retry_on_failure can end in: it
\* returns a success, an error result with a retryable or another error, or
\* raises an exception whose text would or would not be retryable.
FuncOutcomes ==
    {"ok", "timeout_result", "status_result", "raise_timeout", "raise_boom"}

\* str(e) of the exception an attempt raised.
ExcText(outcome) ==
    IF outcome = "raise_timeout" THEN "Request timed out" ELSE "boom"

\* The dict an attempt returned.
FuncResult(outcome) ==
    CASE outcome = "ok" -> SuccessResult(ResponseText)
      [] outcome = "timeout_result" -> CreateErrorResponse("Request timed out")
      [] OTHER -> CreateErrorResponse("Agent returned status 404")

\* A caller invokes _retry_on_failure(func, query, session_id): the loop runs
\* up to the await of the first attempt.
DoRetryOnFailure ==
    /\ ctx.pc = "idle"
    /\ ops < MaxCalls
    /\ tasks' = <<[NewTask("sqlagent", <<"q1">>, "rec-1", FALSE)
                      EXCEPT !.st = "calling"]>>
    /\ ctx' = [IdleCtx EXCEPT !.op = "retry_on_failure", !.pc = "attempt"]
    /\ ops' = ops + 1
    /\ UNCHANGED <<now, use_cache, cache, agent_cache, query_store, sent, next_id>>
    /\ UNCHANGED router_vars

\* await func(*args, **kwargs) returns or raises.
FuncEnds ==
    \E outcome \in FuncOutcomes :
        /\ ctx.op = "retry_on_failure"
        /\ tasks[1].st = "calling"
        /\ LET task == [tasks[1] EXCEPT !.hist = Append(@, outcome)]
               after == IF outcome \in {"raise_timeout", "raise_boom"}
                        THEN OnRaise(task, ExcText(outcome))
                        ELSE OnResult(task, FuncResult(outcome))
           IN /\ tasks' = <<after>>
              /\ ctx' = [ctx EXCEPT !.pc = IF after.st = "done" THEN "idle"
                                           ELSE "attempt"]
        /\ UNCHANGED <<now, use_cache, cache, agent_cache, query_store, sent,
                       next_id, ops>>
        /\ UNCHANGED router_vars

\* await asyncio.sleep(delay) is over: the next iteration of the loop.
SleepElapsed ==
    /\ ctx.op = "retry_on_failure"
    /\ tasks[1].st = "sleeping"
    /\ tasks' = <<[tasks[1] EXCEPT !.attempt = @ + 1, !.st = "calling"]>>
    /\ UNCHANGED <<now, use_cache, cache, agent_cache, query_store, ctx, sent,
                   next_id, ops>>
    /\ UNCHANGED router_vars

NextRetry ==
    \/ DoRetryOnFailure
    \/ FuncEnds
    \/ SleepElapsed
    \/ Tick

\* _retry_on_failure as a caller with a func of its own drives it.
SpecRetry == Init /\ [][NextRetry]_vars

\* C27: an attempt that raises is retried after the backoff
\* retry_delay * 2^attempt whatever the text of the exception, up to
\* max_retries attempts in all; when the last attempt raises too,
\* _retry_on_failure returns an error result with the text of that exception
\* and raises nothing to its caller.
C27_RaisedAttemptRetried ==
    ctx.op = "retry_on_failure" =>
        LET t == tasks[1]
            n == Len(t.hist)
            raised(k) == t.hist[k] \in {"raise_timeout", "raise_boom"}
        IN /\ n <= max_retries
           /\ \A k \in 1..n :
                 (raised(k) /\ k < max_retries) =>
                    /\ Len(t.delays) >= k
                    /\ t.delays[k] = retry_delay * Pow2(k - 1)
                    /\ (t.st = "done" => n > k)
           /\ (t.st = "done" /\ n > 0 /\ raised(n)) =>
                 /\ n = max_retries
                 /\ t.result = [status |-> "error", error |-> ExcText(t.hist[n]),
                                result |-> None]
           /\ t.result.status # "raised"

\* Three attempts raised, the last with another text than the first two; the
\* loop slept 1 and 2 in between and returned the text of the last.
C27_Witness ==
    /\ Finished("retry_on_failure")
    /\ tasks[1].hist = <<"raise_boom", "raise_boom", "raise_timeout">>
    /\ tasks[1].delays = <<1, 2>>
    /\ tasks[1].result.error = "Request timed out"

\* ----------------------------------------------------- retry and the caches
\* The result map of a run in which sub_id ended in an error and the four
\* other sub-queries succeeded: one that _should_cache_results lets through.
ErrorAt(sub_id) ==
    [n \in 1..5 |-> [sub_id |-> SubId(n),
                     result |-> IF SubId(n) = sub_id
                                THEN CreateErrorResponse("Request timed out")
                                ELSE SuccessResult(ResponseText)]]

\* This service with the results of an earlier run for `query`, an error for
\* sub_id among them, in its run-level cache.
WithCachedError(query, sub_id) ==
    [State EXCEPT !.cache = CacheSet(cache, query, Analyze(query).domain,
                                     ErrorAt(sub_id), now)]

\* retry_agent_call(message_id, sub_id, agent_type) on service s run to its
\* return, the agent answering its one attempt with the outcome.
RetryToReturn(s, message_id, sub_id, agent_type, outcome) ==
    LET s1 == RetryAgentCall(s, message_id, sub_id, agent_type, now)
        s2 == IF s1.ctx.pc = "call" /\ s1.tasks[1].st = "calling"
              THEN OnAgentResponse(s1, 1, outcome, now)
              ELSE s1
    IN RunSends(s2, now)

\* C28: retry_agent_call leaves the query store and the run-level cache as
\* they are, whether the retry succeeds, fails or names a sub-query the store
\* does not have; a cached run that holds an error for a sub-query still gives
\* that error at the next lookup of the query after a retry of the sub-query
\* has succeeded.
C28_RetryLeavesStoreAndCache ==
    /\ [][ctx'.op = "retry" => (query_store' = query_store /\ cache' = cache)]_vars
    /\ [](ctx.pc = "idle" =>
            \A query \in Queries, message_id \in RetryMessageIds,
               sub_id \in RetrySubIds, agent_type \in AgentTypes,
               outcome \in {"ok", "status"} :
                LET s0 == WithCachedError(query, sub_id)
                    s == RetryToReturn(s0, message_id, sub_id, agent_type, outcome)
                    g == CacheGet(s.cache, query, Analyze(query).domain, now)
                IN /\ s.ctx.pc = "idle"
                   /\ Len(s.sent) = 1
                   /\ s.cache = s0.cache
                   /\ s.query_store = query_store
                   /\ ShouldCacheResults(ErrorAt(sub_id)) => (g.hit /\ g.data = ErrorAt(sub_id)))

\* A retry of a stored sub-query has returned a success and the store still
\* has the text of the sub-query; run on a cache that holds an error for the
\* sub-query, the same retry sends the success.
C28_Witness ==
    /\ Finished("retry")
    /\ ctx.found
    /\ tasks[1].result.status = "success"
    /\ Len(sent) = 1
    /\ sent[1].error = None
    /\ StoredQuery(query_store, ctx.message_id, ctx.sub_id).found
    /\ RetryToReturn(WithCachedError(<<"tank">>, ctx.sub_id), ctx.message_id,
                     ctx.sub_id, "toolagent", "ok").sent[1].content = ResponseText

\* ------------------------------------------------- QueryCache: its size
\* The entries of `before` whose key the cache no longer holds.
Gone(before, c) == {i \in 1..Len(before) : KeyIndex(c, before[i].key) = 0}

\* C29: the cache never holds more than max_size entries after any sequence
\* of set, get and clear, and a set on a cache that holds max_size entries
\* evicts an oldest-created entry even when its key is already there:
\* overwriting a key of a full cache removes the oldest entry first, so that
\* the cache ends with max_size - 1 entries when that entry is of another key.
C29_SizeBoundAndEvictionOnOverwrite ==
    /\ Len(cache) <= max_size
    /\ ctx.op = "clear" => cache = <<>>
    /\ (ctx.op = "set" /\ Len(ctx.before) >= max_size) =>
          LET gone == Gone(ctx.before, cache)
              own == EntriesOf(ctx.before, ctx.query, ctx.domain)
          IN /\ gone \subseteq Oldest(ctx.before)
             /\ Cardinality(gone) <= 1
             /\ own = {} => (Cardinality(gone) = 1 /\ Len(cache) = max_size)
             /\ (own # {} /\ own \cap Oldest(ctx.before) = {}) =>
                   /\ Cardinality(gone) = 1
                   /\ Len(cache) = max_size - 1
             /\ (own # {} /\ gone = {}) =>
                   /\ own \subseteq Oldest(ctx.before)
                   /\ Len(cache) = max_size
             /\ \E i \in 1..Len(cache) : WrittenBySet(cache[i])

\* A full cache has been set a key it held, not its oldest: the oldest entry
\* is gone and the cache is one short of max_size.
C29_Witness ==
    /\ ctx.op = "set"
    /\ Len(ctx.before) = max_size
    /\ EntriesOf(ctx.before, ctx.query, ctx.domain) # {}
    /\ Cardinality(Gone(ctx.before, cache)) = 1
    /\ Len(cache) = max_size - 1

\* --------------------------------------------- dispatcher: termination
\* The dispatcher when every awaited agent call comes back (each is bounded
\* by the timeout of its kind) and every backoff sleep ends.
\* The lists of sub-queries of the fan-outs followed to their end: one text,
\* an agent kind the dispatcher knows and one it does not.
LiveQueryLists ==
    UNION { [1..n -> [agent_type : {"sqlagent", "otheragent"}, query : {<<"q1">>}]] :
              n \in 0..MaxQueries }

\* A caller invokes call_agents(queries, session_id) with one of these lists.
DoCallAgentsLive ==
    \E qs \in LiveQueryLists :
      \E stubs \in SUBSET {i \in 1..Len(qs) : qs[i].agent_type # "otheragent"} :
        /\ ctx.pc = "idle"
        /\ ops < MaxCalls
        /\ LET queries == [i \in 1..Len(qs) |->
                             AgentQuery(qs[i].agent_type, qs[i].query, SubId(i))]
               s1 == [State EXCEPT !.tasks = <<>>, !.sent = <<>>,
                                   !.ctx = [IdleCtx EXCEPT !.op = "call_agents"]]
           IN Assign(Resume(CallAgents(s1, queries, stubs, now), now))
        /\ ops' = ops + 1
        /\ UNCHANGED <<now, use_cache, next_id>>
        /\ UNCHANGED router_vars

\* The clock stands still, so that no cached answer expires under way.
NextDispatcherLive ==
    \/ DoCallAgentsLive
    \/ AgentResponse
    \/ BackoffElapsed

SpecDispatcherLive ==
    /\ Init
    /\ [][NextDispatcherLive]_vars
    /\ WF_vars(AgentResponse)
    /\ WF_vars(BackoffElapsed)

\* C30: every invocation of call_agents returns in the end, provided every
\* agent attempt returns or raises: a sub-query makes at most max_retries
\* attempts, and the join completes once all of them have resolved.
C30_CallAgentsReturns ==
    /\ [](ctx.op = "call_agents" =>
             \A i \in 1..Len(tasks) :
                 /\ Len(tasks[i].hist) <= max_retries
                 /\ tasks[i].attempt < max_retries)
    /\ [](ctx.op = "call_agents" => <>Finished("call_agents"))
    /\ []((ctx.op = "call_agents" /\ AllDone(tasks)) => ctx.pc = "idle")

\* A fan-out has returned after one of its sub-queries used up its
\* max_retries attempts and another was answered at once.
C30_Witness ==
    /\ Finished("call_agents")
    /\ Len(tasks) = 2
    /\ \E i \in 1..2 :
          /\ Len(tasks[i].hist) = max_retries
          /\ \A k \in 1..max_retries : tasks[i].hist[k] \in {"timeout", "connect"}
          /\ tasks[i].result.status = "error"
    /\ \E j \in 1..2 : tasks[j].hist = <<"ok">>

====
